---- MODULE Spec2Model ----
(***************************************************************************)
(* Model of the winget-mirror package state and synchronisation engine:    *)
(* winget_mirror_core.py (process_package, WingetMirrorManager,            *)
(* WingetPackage) and tasks.py (sync, refresh_synced, purge_package,       *)
(* purge_all_packages, cleanup).                                           *)
(*                                                                         *)
(* Strings that the code takes apart (version labels, URLs) are kept as    *)
(* strings; the tables VersionParts and UrlParts give their spelling, and  *)
(* everything the code does after str.split / Path() is computed.          *)
(***************************************************************************)
EXTENDS Integers, Sequences, FiniteSets, TLC

VARIABLES
    rev,        \* revision of the cloned manifest repository, 0 = not cloned
    now,        \* the clock, in months since Epoch
    downloads,  \* state.json: the "downloads" mapping
    last_sync,  \* state.json: "last_sync"
    disk,       \* the download tree
    patched,    \* the patched-manifest directories, <<patch dir, package, version>>
    last,       \* the last command run and what it returned
    ops,        \* number of commands run
    faults,     \* number of files damaged
    config_file, \* config.json: whether it exists, and its "patch_dir"
    state_file, \* state.json as a file: "absent", "written" (its content is
                \* downloads and last_sync), "empty" or "garbled"
    running     \* the invocations in flight, each with the state it loaded

vars == <<rev, now, downloads, last_sync, disk, patched, last, ops, faults,
          config_file, state_file, running>>

(***************************************************************************)
(* Bounds of the model.                                                    *)
(***************************************************************************)
\* number of command invocations (sync, refresh, purge, cleanup, ...) in a run
MaxOps == 2
\* number of times the upstream repository is cloned/fetched (sync_repo)
MaxRev == 2
\* latest month, counted from Epoch, that the clock reaches
MaxNow == 1
\* number of times a user damages a downloaded file
MaxCorrupt == 1

None == "None"

(***************************************************************************)
(* Generic helpers for dicts (functions with a finite domain) and lists.   *)
(***************************************************************************)
EmptyMap == [x \in {} |-> None]

Put(m, k, val) == [x \in (DOMAIN m) \cup {k} |-> IF x = k THEN val ELSE m[x]]

Del(m, k) == [x \in (DOMAIN m) \ {k} |-> m[x]]

Range(s) == {s[i] : i \in DOMAIN s}

RECURSIVE SeqFilter(_, _)
\* the elements of list s that are in the set keep, in the order of s
SeqFilter(s, keep) ==
    IF s = <<>> THEN <<>>
    ELSE IF Head(s) \in keep THEN <<Head(s)>> \o SeqFilter(Tail(s), keep)
         ELSE SeqFilter(Tail(s), keep)

(***************************************************************************)
(* Version labels.  VersionParts[v] is v.split('.'); a part is             *)
(*   digits : a run of decimal digits (int() and PEP 440 both accept it)   *)
(*   signed : a signed integer such as "-1" (int() accepts, PEP 440 not)   *)
(*   text   : anything int() and PEP 440 both reject, the empty string     *)
(*            included                                                     *)
(***************************************************************************)
Digits(n) == [kind |-> "digits", val |-> n]
Signed(n) == [kind |-> "signed", val |-> n]
Text == [kind |-> "text", val |-> 0]

VersionParts ==
    [v \in {"1.0", "1.1", "1.2", "1.3", "1.1.x", "2.0", "2.1", "2.-1",
            "1.2.3", "1.10.0", "1.2.40.592", ""} |->
        CASE v = "1.0"   -> <<Digits(1), Digits(0)>>
          [] v = "1.2.3" -> <<Digits(1), Digits(2), Digits(3)>>
          [] v = "1.10.0" -> <<Digits(1), Digits(10), Digits(0)>>
          [] v = "1.2.40.592" -> <<Digits(1), Digits(2), Digits(40), Digits(592)>>
          [] v = ""      -> <<Text>>
          [] v = "1.1"   -> <<Digits(1), Digits(1)>>
          [] v = "1.2"   -> <<Digits(1), Digits(2)>>
          [] v = "1.3"   -> <<Digits(1), Digits(3)>>
          [] v = "1.1.x" -> <<Digits(1), Digits(1), Text>>
          [] v = "2.0"   -> <<Digits(2), Digits(0)>>
          [] v = "2.1"   -> <<Digits(2), Digits(1)>>
          [] v = "2.-1"  -> <<Digits(2), Signed(-1)>>]

VersionLabels == DOMAIN VersionParts

RECURSIVE IntPrefix(_)
\* winget_mirror_core.py 26-31: int() of each part, stop at the first failure
IntPrefix(parts) ==
    IF parts = <<>> THEN <<>>
    ELSE IF Head(parts).kind = "text" THEN <<>>
         ELSE <<Head(parts).val>> \o IntPrefix(Tail(parts))

RECURSIVE PadTo3(_)
\* winget_mirror_core.py 33-34
PadTo3(ns) == IF Len(ns) < 3 THEN PadTo3(Append(ns, 0)) ELSE ns

RECURSIVE StripZeros(_)
\* packaging.version.Version orders releases with trailing zeros dropped
StripZeros(ns) ==
    IF ns # <<>> /\ ns[Len(ns)] = 0 THEN StripZeros(SubSeq(ns, 1, Len(ns) - 1))
    ELSE ns

\* Version(str): a release of non-negative integers, or InvalidVersion
MakeVersion(ns) ==
    IF ns # <<>> /\ \A i \in DOMAIN ns : ns[i] >= 0
    THEN [ok |-> TRUE, key |-> StripZeros(ns)]
    ELSE [ok |-> FALSE, key |-> <<>>]

\* parse_version_safe on the parts of a label: version.parse when every part
\* is a run of digits, the fallback otherwise; ok = FALSE stands for the
\* InvalidVersion that the fallback lets escape
ParseParts(parts) ==
    IF \A i \in DOMAIN parts : parts[i].kind = "digits"
    THEN MakeVersion([i \in DOMAIN parts |-> parts[i].val])
    ELSE MakeVersion(PadTo3(IntPrefix(parts)))

parse_version_safe(v) == ParseParts(VersionParts[v])

\* parse_version_safe of every label of the model, computed once
Parsed == [v \in VersionLabels |-> parse_version_safe(v)]

VKey(v) == Parsed[v].key

RECURSIVE KeyLess(_, _)
\* tuple comparison of two release keys: a < b
KeyLess(a, b) ==
    IF b = <<>> THEN FALSE
    ELSE IF a = <<>> THEN TRUE
    ELSE IF Head(a) # Head(b) THEN Head(a) < Head(b)
    ELSE KeyLess(Tail(a), Tail(b))

VersionLess(v, w) == KeyLess(VKey(v), VKey(w))

RECURSIVE MaxByKey(_)
\* Python max(list, key=parse_version_safe): the first maximal element
MaxByKey(s) ==
    LET Later(m, x) == IF VersionLess(m, x) THEN x ELSE m
    IN  IF Len(s) = 1 THEN s[1]
        ELSE Later(MaxByKey(SubSeq(s, 1, Len(s) - 1)), s[Len(s)])

RECURSIVE InsertSorted(_, _)
InsertSorted(sorted, v) ==
    IF sorted = <<>> THEN <<v>>
    ELSE IF VersionLess(v, Head(sorted)) THEN <<v>> \o sorted
         ELSE <<Head(sorted)>> \o InsertSorted(Tail(sorted), v)

RECURSIVE SortByKey(_)
\* Python list.sort(key=parse_version_safe): ascending and stable
SortByKey(s) ==
    IF s = <<>> THEN <<>>
    ELSE InsertSorted(SortByKey(SubSeq(s, 1, Len(s) - 1)), s[Len(s)])

(***************************************************************************)
(* Package identities: split('.', 1) of a package id, and the lower-cased  *)
(* spelling of the names the command-line filters are matched against.     *)
(***************************************************************************)
Packages == {"Foo.Bar", "Foo.Baz"}

SplitId ==
    [p \in Packages |->
        CASE p = "Foo.Bar" -> [pub |-> "Foo", pkg |-> "Bar"]
          [] p = "Foo.Baz" -> [pub |-> "Foo", pkg |-> "Baz"]]

LowerChars ==
    [n \in {"Foo", "Bar", "Baz", "foo"} |->
        CASE n \in {"Foo", "foo"} -> <<"f", "o", "o">>
          [] n = "Bar"            -> <<"b", "a", "r">>
          [] n = "Baz"            -> <<"b", "a", "z">>]

\* name.lower().startswith(prefix.lower())
StartsWithLower(name, prefix) ==
    LET a == LowerChars[name]
        b == LowerChars[prefix]
    IN  Len(b) <= Len(a) /\ SubSeq(a, 1, Len(b)) = b

(***************************************************************************)
(* Dates: the clock counts months from Epoch; only .year and .month of a   *)
(* timestamp are ever read back (tasks.py 494-495).                        *)
(***************************************************************************)
Epoch == [year |-> 2025, month |-> 12]

NoDate == [year |-> 0, month |-> 0]

\* datetime.datetime.now() after t months
DateOf(t) ==
    [year  |-> Epoch.year + ((Epoch.month - 1 + t) \div 12),
     month |-> ((Epoch.month - 1 + t) % 12) + 1]

(***************************************************************************)
(* Content and hashes.  Sha256 is the digest of a content, injective on    *)
(* the contents of the model; manifests may spell a digest in upper case.  *)
(***************************************************************************)
Contents == {"c10", "c11", "c12", "c20", "junk"}

Sha256 ==
    [c \in Contents |->
        CASE c = "c10" -> "ab10" [] c = "c11" -> "ab11" [] c = "c12" -> "ab12"
          [] c = "c20" -> "ab20" [] c = "junk" -> "ab99"]

\* str.lower() on the digests manifests declare
Lower ==
    [h \in {"AB10", "ab20", "AB00"} |->
        CASE h = "AB10" -> "ab10" [] h = "ab20" -> "ab20" [] h = "AB00" -> "ab00"]

(***************************************************************************)
(* The upstream manifest repository.  ManifestTree[p] lists the version    *)
(* directories of package p in iterdir order; a directory is present from  *)
(* revision `since` on.  Revision 0 is "not cloned yet".                   *)
(***************************************************************************)
Inst(arch, url, sha) == [Architecture |-> arch, InstallerUrl |-> url, InstallerSha256 |-> sha]

UrlParts ==
    [u \in {"https://example.com/foo/Bar-1.0-x86.exe", "https://example.com/foo/Bar-1.0.exe",
            "https://example.com/foo/Bar-1.1.exe", "https://example.com/foo/Bar-1.2.exe",
            "https://example.com/baz/Baz-2.0.exe", "https://example.com/baz/Baz-arm.exe",
            "https://example.com/foo/Bar-1.2.3.exe"} |->
        CASE u = "https://example.com/foo/Bar-1.0-x86.exe" -> <<"https:", "example.com", "foo", "Bar-1.0-x86.exe">>
          [] u = "https://example.com/foo/Bar-1.0.exe"     -> <<"https:", "example.com", "foo", "Bar-1.0.exe">>
          [] u = "https://example.com/foo/Bar-1.1.exe"     -> <<"https:", "example.com", "foo", "Bar-1.1.exe">>
          [] u = "https://example.com/foo/Bar-1.2.exe"     -> <<"https:", "example.com", "foo", "Bar-1.2.exe">>
          [] u = "https://example.com/baz/Baz-2.0.exe"     -> <<"https:", "example.com", "baz", "Baz-2.0.exe">>
          [] u = "https://example.com/baz/Baz-arm.exe"     -> <<"https:", "example.com", "baz", "Baz-arm.exe">>
          [] u = "https://example.com/foo/Bar-1.2.3.exe"   -> <<"https:", "example.com", "foo", "Bar-1.2.3.exe">>]

\* Path(url).name
PathName(url) == UrlParts[url][Len(UrlParts[url])]

\* what the blob fetcher delivers for a URL when it succeeds
Blob ==
    [u \in DOMAIN UrlParts |->
        CASE u = "https://example.com/foo/Bar-1.0-x86.exe" -> "junk"
          [] u = "https://example.com/foo/Bar-1.0.exe"     -> "c10"
          [] u = "https://example.com/foo/Bar-1.1.exe"     -> "c11"
          [] u = "https://example.com/foo/Bar-1.2.exe"     -> "c12"
          [] u = "https://example.com/baz/Baz-2.0.exe"     -> "c20"
          [] u = "https://example.com/baz/Baz-arm.exe"     -> "junk"
          [] u = "https://example.com/foo/Bar-1.2.3.exe"   -> "c12"]

\* a version directory: <pub>.<pkg>.yaml (yaml) with its Installers, and the
\* optional <pub>.<pkg>.installer.yaml (installer_yaml) with its Installers
VersionDir(v, since, yaml, installers, installer_yaml, installer_installers) ==
    [version |-> v, since |-> since, yaml |-> yaml, installers |-> installers,
     installer_yaml |-> installer_yaml, installer_installers |-> installer_installers]

ManifestTree ==
    [p \in Packages |->
        CASE p = "Foo.Bar" ->
               << VersionDir("1.1", 1, TRUE, <<>>, TRUE,
                      <<Inst("x64", "https://example.com/foo/Bar-1.1.exe", "AB00")>>),
                  VersionDir("1.0", 1, TRUE, <<>>, TRUE,
                      <<Inst("x86", "https://example.com/foo/Bar-1.0-x86.exe", None),
                        Inst("x64", "https://example.com/foo/Bar-1.0.exe", "AB10")>>),
                  VersionDir("1.2", 2, TRUE, <<>>, TRUE,
                      <<Inst("x64", "https://example.com/foo/Bar-1.2.exe", None)>>) >>
          [] p = "Foo.Baz" ->
               << VersionDir("2.-1", 1, TRUE, <<>>, FALSE, <<>>),
                  VersionDir("2.0", 1, TRUE,
                      <<Inst("arm64", "https://example.com/baz/Baz-arm.exe", None),
                        Inst("x64", None, None),
                        Inst("x86", "https://example.com/baz/Baz-2.0.exe", "ab20")>>,
                      FALSE, <<>>),
                  VersionDir("2.1", 2, TRUE,
                      <<Inst("arm64", "https://example.com/baz/Baz-arm.exe", None)>>,
                      FALSE, <<>>) >>]

RECURSIVE DirsAt(_, _)
DirsAt(tree, r) ==
    IF tree = <<>> THEN <<>>
    ELSE IF Head(tree).since <= r THEN <<Head(tree)>> \o DirsAt(Tail(tree), r)
         ELSE DirsAt(Tail(tree), r)

\* [d.name for d in package_path.iterdir() if d.is_dir()] at revision r
VersionDirs(r, p) == LET ds == DirsAt(ManifestTree[p], r) IN [i \in DOMAIN ds |-> ds[i].version]

ManifestOf(p, v) == CHOOSE d \in Range(ManifestTree[p]) : d.version = v

\* the blob fetcher either delivers the content or fails (requests.get /
\* raise_for_status raising HTTPError or another RequestException)
FetchOutcomes == {"ok", "http_error", "request_failed"}

(***************************************************************************)
(* The state document (state.json): `downloads` maps a package id to       *)
(*   [versions |-> list of Version Entries in dict insertion order,        *)
(*    timestamp |-> the package-level timestamp]                           *)
(* and the download tree: `disk` maps <<package id, version>> of every     *)
(* existing download directory to its files (filename -> content).         *)
(***************************************************************************)
RECURSIVE IndexOf(_, _)
\* position of version v in a list of entries, 0 if absent
IndexOf(entries, v) ==
    IF entries = <<>> THEN 0
    ELSE IF entries[Len(entries)].version = v THEN Len(entries)
         ELSE IndexOf(SubSeq(entries, 1, Len(entries) - 1), v)

HasVersion(dl, p, v) == p \in DOMAIN dl /\ IndexOf(dl[p].versions, v) # 0

EntryOf(dl, p, v) == dl[p].versions[IndexOf(dl[p].versions, v)]

VersionsOf(dl, p) == IF p \in DOMAIN dl THEN {e.version : e \in Range(dl[p].versions)} ELSE {}

\* the unpinned versions of package p in dl
Unpinned(dl, p) == {e.version : e \in {x \in Range(dl[p].versions) : ~x.pinned}}

\* versions[v] = entry: in place when the key exists, appended otherwise
SetEntry(entries, e) ==
    LET i == IndexOf(entries, e.version)
    IN  IF i = 0 THEN Append(entries, e) ELSE [entries EXCEPT ![i] = e]

RECURSIVE FirstInstaller(_, _, _)
\* index of the first installer, from position i on, with this architecture
\* and a truthy InstallerUrl; 0 if there is none
FirstInstaller(installers, arch, i) ==
    IF i > Len(installers) THEN 0
    ELSE IF installers[i].Architecture = arch /\ installers[i].InstallerUrl \notin {None, ""}
         THEN i
         ELSE FirstInstaller(installers, arch, i + 1)

\* a fault: the first x64 or x86 installer is taken, whichever comes first
ChooseInstallerNoPreference(installers) ==
    LET x64 == FirstInstaller(installers, "x64", 1)
        x86 == FirstInstaller(installers, "x86", 1)
    IN  IF x64 = 0 THEN x86 ELSE IF x86 = 0 THEN x64 ELSE IF x64 < x86 THEN x64 ELSE x86

\* process_package 143-153: prefer x64, fall back to x86
ChooseInstaller(installers) ==
    LET x64 == FirstInstaller(installers, "x64", 1)
    IN  IF x64 # 0 THEN x64 ELSE FirstInstaller(installers, "x86", 1)

\* process_package 134-139: the Version Entry written for the target version
NewEntry(target, r, t, version_filter) ==
    [version |-> target, git_rev |-> r, files |-> EmptyMap,
     timestamp |-> DateOf(t), pinned |-> (version_filter # None)]

\* a fault: the digest the manifest declares is recorded, not the computed one
RecordFileDeclared(files, filename, computed, declared) ==
    Put(files, filename, IF declared # None THEN Lower[declared] ELSE computed)

\* a fault: a file whose digest differs from the declared one is not recorded
RecordFileGated(files, filename, computed, declared) ==
    IF declared # None /\ computed # Lower[declared] THEN files
    ELSE Put(files, filename, computed)

\* process_package 200-203: the computed digest of a fetched file is recorded,
\* whatever digest the manifest declares
RecordFile(files, filename, computed, declared) == Put(files, filename, computed)

\* process_package 209-214: the return value
ReturnValue(files, downloaded_new) == files # EmptyMap

Result(dl, dk, ret, outcome, target, fetches, warned) ==
    [dl |-> dl, dk |-> dk, ret |-> ret, outcome |-> outcome, target |-> target,
     fetches |-> fetches, warned |-> warned]

\* process_package 160-214: the chosen installer is fetched, or found on disk
Download(dl1, dk1, p, target, inst, fetch, t) ==
    LET Record(filename, dir, entry) ==
            LET Finish(fs, dk2, downloaded_new, warned) ==
                    Result(Put(dl1, p,
                               [dl1[p] EXCEPT
                                   !.versions  = SetEntry(@, [entry EXCEPT !.files = fs]),
                                   !.timestamp = IF fs # EmptyMap THEN DateOf(t) ELSE @]),
                           dk2, ReturnValue(fs, downloaded_new),
                           IF downloaded_new THEN "fetched" ELSE "existing", target,
                           IF downloaded_new THEN 1 ELSE 0, warned)
                Fetched(computed) ==
                    Finish(RecordFile(entry.files, filename, computed, inst.InstallerSha256),
                           Put(dk1, <<p, target>>, Put(dir, filename, Blob[inst.InstallerUrl])),
                           TRUE,
                           inst.InstallerSha256 # None /\ computed # Lower[inst.InstallerSha256])
            IN  IF filename \in DOMAIN dir
                THEN Finish(IF filename \notin DOMAIN entry.files
                            THEN Put(entry.files, filename, Sha256[dir[filename]])
                            ELSE entry.files,
                            dk1, FALSE, FALSE)
                ELSE IF fetch # "ok"
                THEN Result(dl1, dk1, FALSE, "fetch_failed", target, 1, FALSE)
                ELSE Fetched(Sha256[Blob[inst.InstallerUrl]])
    IN  Record(PathName(inst.InstallerUrl), dk1[<<p, target>>], EntryOf(dl1, p, target))

\* process_package 126-127: download_dir.mkdir(parents=True, exist_ok=True)
PrepareDir(dk, p, target) ==
    IF <<p, target>> \in DOMAIN dk THEN dk ELSE Put(dk, <<p, target>>, EmptyMap)

\* process_package 129-139: the package entry is created when missing and the
\* Version Entry of the target is written over whatever was there
PrepareEntry(dl, p, target, r, t, version_filter) ==
    Put(dl, p,
        [versions  |-> SetEntry(IF p \in DOMAIN dl THEN dl[p].versions ELSE <<>>,
                                NewEntry(target, r, t, version_filter)),
         timestamp |-> IF p \in DOMAIN dl THEN dl[p].timestamp ELSE NoDate])

\* process_package 141-214: the installer is selected, then fetched or found
SelectAndDownload(installers, dk1, dl1, p, target, fetch, t) ==
    LET Chosen(i) ==
            IF i = 0 THEN Result(dl1, dk1, FALSE, "no_installer", target, 0, FALSE)
            ELSE Download(dl1, dk1, p, target, installers[i], fetch, t)
    IN  Chosen(ChooseInstaller(installers))

\* process_package 111-157: the manifest is read, the download directory and
\* the Version Entry are created, then the installer is selected
Materialise(dl, dk, p, target, version_filter, fetch, t, r) ==
    LET Manifest(m) ==
            SelectAndDownload(IF m.installer_yaml THEN m.installer_installers ELSE m.installers,
                              PrepareDir(dk, p, target),
                              PrepareEntry(dl, p, target, r, t, version_filter),
                              p, target, fetch, t)
    IN  Manifest(ManifestOf(p, target))

\* process_package 90-97: the version directories whose name parses
ValidVersions(versions) == SeqFilter(versions, {v \in Range(versions) : Parsed[v].ok})

\* process_package: find the version (latest or explicit), download if
\* needed, update the state; `fetch` is what the blob fetcher does when asked
process_package(dl, dk, p, version_filter, fetch, t, r) ==
    LET skip(why) == Result(dl, dk, FALSE, why, None, 0, FALSE)
        Target(target_version) ==
            IF ~ManifestOf(p, target_version).yaml THEN skip("no_manifest")
            ELSE Materialise(dl, dk, p, target_version, version_filter, fetch, t, r)
        Resolve(versions, valid_versions) ==
            IF versions = <<>> THEN skip("package_not_found")
            ELSE IF valid_versions = <<>> THEN skip("no_versions")
            ELSE IF version_filter # None
                 THEN IF version_filter \notin Range(valid_versions)
                      THEN skip("version_not_found")
                      ELSE Target(version_filter)
                 ELSE Target(MaxByKey(valid_versions))
    IN  Resolve(VersionDirs(r, p), ValidVersions(VersionDirs(r, p)))

\* get_latest_version 428-440: the latest of a directory listing, None when
\* no label of the listing parses
LatestVersion(versions) ==
    LET Latest(valid_versions) ==
            IF valid_versions = <<>> THEN None ELSE MaxByKey(valid_versions)
    IN  Latest(ValidVersions(versions))

\* WingetPackage.get_latest_version, None when there is no usable version
get_latest_version(r, p) == LatestVersion(VersionDirs(r, p))

(***************************************************************************)
(* WingetPackage.validate_hashes: the report for one package.              *)
(***************************************************************************)
VersionReport(valid, files, missing, unexpected) ==
    [valid |-> valid, files |-> files, missing_files |-> missing, unexpected_files |-> unexpected]

\* a fault: a file that is on disk but not recorded makes the version invalid
validate_versionStrict(dk, p, e) ==
    LET expected_files == e.files
    IN  IF expected_files = EmptyMap THEN VersionReport(TRUE, EmptyMap, {}, {})
        ELSE IF <<p, e.version>> \notin DOMAIN dk THEN VersionReport(FALSE, EmptyMap, {}, {})
        ELSE LET actual_files == dk[<<p, e.version>>]
                 present      == (DOMAIN expected_files) \cap (DOMAIN actual_files)
                 missing      == (DOMAIN expected_files) \ (DOMAIN actual_files)
                 unexpected   == (DOMAIN actual_files) \ (DOMAIN expected_files)
                 status(f)    == IF Sha256[actual_files[f]] = expected_files[f]
                                 THEN "MATCH" ELSE "MISMATCH"
                 files        == [f \in present |->
                                     [status   |-> status(f),
                                      expected |-> expected_files[f],
                                      computed |-> Sha256[actual_files[f]]]]
             IN  VersionReport(/\ missing = {}
                               /\ unexpected = {}
                               /\ \A f \in present : status(f) = "MATCH",
                               files, missing, unexpected)

\* validate_hashes 455-505: the report for one Version Entry
validate_version(dk, p, e) ==
    LET expected_files == e.files
    IN  IF expected_files = EmptyMap THEN VersionReport(TRUE, EmptyMap, {}, {})
        ELSE IF <<p, e.version>> \notin DOMAIN dk THEN VersionReport(FALSE, EmptyMap, {}, {})
        ELSE LET actual_files == dk[<<p, e.version>>]
                 present      == (DOMAIN expected_files) \cap (DOMAIN actual_files)
                 missing      == (DOMAIN expected_files) \ (DOMAIN actual_files)
                 status(f)    == IF Sha256[actual_files[f]] = expected_files[f]
                                 THEN "MATCH" ELSE "MISMATCH"
                 files        == [f \in present |->
                                     [status   |-> status(f),
                                      expected |-> expected_files[f],
                                      computed |-> Sha256[actual_files[f]]]]
             IN  VersionReport(missing = {} /\ \A f \in present : status(f) = "MATCH",
                               files, missing,
                               (DOMAIN actual_files) \ (DOMAIN expected_files))

validate_hashes(dl, dk, p) ==
    IF p \notin DOMAIN dl
    THEN [valid |-> FALSE, error |-> "Package not in state", versions |-> EmptyMap]
    ELSE LET reports == [v \in VersionsOf(dl, p) |-> validate_version(dk, p, EntryOf(dl, p, v))]
         IN  [valid |-> \A v \in DOMAIN reports : reports[v].valid,
              error |-> None, versions |-> reports]

(***************************************************************************)
(* WingetPackage.purge: remove the downloads, the patched manifests and    *)
(* the state of one version (or of all versions when version is None).     *)
(***************************************************************************)
DefaultPatchDir == "patched-manifests"

\* WingetMirrorManager.DEFAULT_CONFIG as config.json holds it
DEFAULT_CONFIG == [exists |-> TRUE, patch_dir |-> DefaultPatchDir]

\* the versions a purge with this version argument removes
PurgeSelection(entries, version) ==
    {e.version : e \in {x \in Range(entries) : version = None \/ x.version = version}}

\* a fault: the package entry is kept when its last version is dropped
RemoveVersionsKeepPackage(dl, p, gone) ==
    Put(dl, p, [dl[p] EXCEPT !.versions =
                   SeqFilter(@, {e \in Range(dl[p].versions) : e.version \notin gone})])

\* purge 524-547 and purge_package 279-295: drop the selected entries, and
\* the package entry with them when no version is left
RemoveVersions(dl, p, gone) ==
    LET Keep(left) ==
            IF left = <<>> THEN Del(dl, p) ELSE Put(dl, p, [dl[p] EXCEPT !.versions = left])
    IN  Keep(SeqFilter(dl[p].versions, {e \in Range(dl[p].versions) : e.version \notin gone}))

\* shutil.rmtree of the download directories of the selected versions
RemoveDirs(dk, p, gone) == [k \in (DOMAIN dk) \ {<<p, v>> : v \in gone} |-> dk[k]]

purge(dl, dk, pt, p, version) ==
    IF p \notin DOMAIN dl \/ dl[p].versions = <<>>
    THEN [dl |-> dl, dk |-> dk, pt |-> pt, ret |-> FALSE, removed |-> {}]
    ELSE LET Remove(gone) ==
                 [dl      |-> RemoveVersions(dl, p, gone),
                  dk      |-> RemoveDirs(dk, p, gone),
                  pt      |-> pt \ {<<DefaultPatchDir, p, v>> : v \in gone},
                  ret     |-> gone # {},
                  removed |-> {<<p, v>> : v \in gone}]
         IN  Remove(PurgeSelection(dl[p].versions, version))

(***************************************************************************)
(* cleanup: the versions of one package that the thresholds select.        *)
(***************************************************************************)
\* Python s[:stop]
PySliceTo(s, stop) ==
    LET n == Len(s)
        k == IF stop < 0 THEN (IF stop + n < 0 THEN 0 ELSE stop + n)
             ELSE IF stop > n THEN n ELSE stop
    IN  SubSeq(s, 1, k)

\* cleanup 495
AgeMonths(t, ts) == (DateOf(t).year - ts.year) * 12 + (DateOf(t).month - ts.month)

\* a fault: the pinned versions are not left out
UnpinnedSortedAll(entries) == SortByKey([i \in DOMAIN entries |-> entries[i].version])

\* cleanup 481-486: the unpinned versions, sorted by version
UnpinnedSorted(entries) ==
    LET unpinned == SeqFilter(entries, {e \in Range(entries) : ~e.pinned})
    IN  SortByKey([i \in DOMAIN unpinned |-> unpinned[i].version])

\* cleanup 490-491
CountRule(sorted, max_versions) ==
    IF Len(sorted) > max_versions THEN PySliceTo(sorted, -max_versions) ELSE <<>>

\* cleanup 493-497
AgeRule(entries, sorted, t, max_age_months) ==
    {v \in Range(sorted) :
        AgeMonths(t, entries[IndexOf(entries, v)].timestamp) > max_age_months}

\* cleanup 477-497: to_delete of one package
to_delete(entries, t, max_versions, max_age_months) ==
    LET Select(sorted) ==
            Range(CountRule(sorted, max_versions)) \cup AgeRule(entries, sorted, t, max_age_months)
    IN  Select(UnpinnedSorted(entries))

(***************************************************************************)
(* Loops of the commands over packages.  The packages of a batch touch     *)
(* disjoint parts of the state, so one fixed iteration order is modelled.  *)
(***************************************************************************)
PackageOrder == <<"Foo.Baz", "Foo.Bar">>

Summary(r) ==
    [ret |-> r.ret, outcome |-> r.outcome, target |-> r.target,
     fetches |-> r.fetches, warned |-> r.warned]

RECURSIVE DownloadAll(_, _, _, _, _, _, _)
\* pkg.download(version) for every <<package, version>> of `calls`, in order
DownloadAll(calls, dl, dk, res, fetch, t, r) ==
    IF calls = <<>> THEN [dl |-> dl, dk |-> dk, res |-> res]
    ELSE LET Rest(p, out) ==
                 DownloadAll(Tail(calls), out.dl, out.dk, Put(res, p, Summary(out)), fetch, t, r)
         IN  Rest(Head(calls)[1],
                  process_package(dl, dk, Head(calls)[1], Head(calls)[2], fetch[Head(calls)[1]], t, r))

\* sync 66-81: the packages the publisher/package filter selects
MatchingPackages(r, pub_filter, pkg_filter) ==
    SeqFilter(PackageOrder,
              {p \in Packages :
                  /\ VersionDirs(r, p) # <<>>
                  /\ StartsWithLower(SplitId[p].pub, pub_filter)
                  /\ (pkg_filter = None \/ StartsWithLower(SplitId[p].pkg, pkg_filter))})

\* refresh_synced 108-131: the download calls a refresh makes
RefreshCalls(dl, r) ==
    LET Newer(non_pinned, latest) ==
            /\ non_pinned # <<>>
            /\ latest # None
            /\ VersionLess(MaxByKey([i \in DOMAIN non_pinned |-> non_pinned[i].version]), latest)
        wanted(p) ==
            Newer(SeqFilter(dl[p].versions, {e \in Range(dl[p].versions) : ~e.pinned}),
                  get_latest_version(r, p))
        Calls(pkgs) == [i \in DOMAIN pkgs |-> <<pkgs[i], get_latest_version(r, pkgs[i])>>]
    IN  Calls(SeqFilter(PackageOrder, {p \in DOMAIN dl : wanted(p)}))

RECURSIVE PurgeAll(_, _, _, _, _)
\* WingetPackage.purge(version) for every <<package, version>> of `calls`
PurgeAll(calls, dl, dk, pt, removed) ==
    IF calls = <<>> THEN [dl |-> dl, dk |-> dk, pt |-> pt, removed |-> removed]
    ELSE LET Rest(out) == PurgeAll(Tail(calls), out.dl, out.dk, out.pt, removed \cup out.removed)
         IN  Rest(purge(dl, dk, pt, Head(calls)[1], Head(calls)[2]))

RECURSIVE SetToSeq(_)
SetToSeq(set) ==
    IF set = {} THEN <<>>
    ELSE LET x == CHOOSE y \in set : TRUE IN <<x>> \o SetToSeq(set \ {x})

RECURSIVE CleanupCalls(_, _, _, _, _)
\* cleanup 476-506: the purge calls a cleanup makes
CleanupCalls(pkgs, dl, t, max_versions, max_age_months) ==
    IF pkgs = <<>> THEN <<>>
    ELSE SetToSeq({<<Head(pkgs), v>> :
                      v \in to_delete(dl[Head(pkgs)].versions, t, max_versions, max_age_months)})
         \o CleanupCalls(Tail(pkgs), dl, t, max_versions, max_age_months)

(***************************************************************************)
(* The commands.  One action is one invocation: the state document is      *)
(* loaded, the command runs to completion, the state document is saved.    *)
(***************************************************************************)
NoThresholds == [max_versions |-> -1, max_age_months |-> -1]

\* what is remembered of a command: its name and arguments, the revision of
\* the manifest repository it ran on, what download returned for each package
\* it was called for, and the <<package, version>> pairs it removed
Ran(op, version, thresholds, res, removed) ==
    [op |-> op, version |-> version, thresholds |-> thresholds, rev |-> rev,
     res |-> res, removed |-> removed]

\* the inputs the commands are run with
SyncTargets == {[pub |-> "Foo", pkg |-> None], [pub |-> "foo", pkg |-> "Bar"]}

SyncVersions == {None, "1.0", "1.1", "2.-1"}

PurgeTargets == {[pub |-> "foo", pkg |-> None], [pub |-> "Foo", pkg |-> "Bar"]}

PurgeVersions == {None, "1.0"}

\* largest max_unpinned_versions and max_unpinned_age_months tried
MaxCount == 2
MaxAge == 1

\* the project right after `init`: nothing cloned, nothing downloaded
Init ==
    /\ rev = 0
    /\ now = 0
    /\ downloads = EmptyMap
    /\ last_sync = NoDate
    /\ disk = EmptyMap
    /\ patched = {}
    /\ last = Ran("init", None, NoThresholds, EmptyMap, {})
    /\ ops = 0
    /\ faults = 0
    /\ config_file = DEFAULT_CONFIG
    /\ state_file = "written"
    /\ running = <<>>

\* sync_repo: clone the manifest repository, or fetch its next revision; a
\* fetch happens a month after the previous revision was checked out
SyncRepo ==
    /\ rev < MaxRev
    /\ rev' = rev + 1
    /\ now' = IF rev > 0 /\ now < MaxNow THEN now + 1 ELSE now
    /\ UNCHANGED <<downloads, last_sync, disk, patched, last, ops, faults,
                 config_file, state_file, running>>

\* the content of a downloaded file is damaged behind the program's back
Corrupt(p, v, f) ==
    /\ faults < MaxCorrupt
    /\ <<p, v>> \in DOMAIN disk
    /\ f \in DOMAIN disk[<<p, v>>]
    /\ disk[<<p, v>>][f] # "junk"
    /\ disk' = [disk EXCEPT ![<<p, v>>][f] = "junk"]
    /\ faults' = faults + 1
    /\ UNCHANGED <<rev, now, downloads, last_sync, patched, last, ops,
                 config_file, state_file, running>>

\* sync 70-83: the download calls a sync makes
SyncCalls(r, target, version) ==
    LET Calls(pkgs) == [i \in DOMAIN pkgs |-> <<pkgs[i], version>>]
    IN  Calls(MatchingPackages(r, target.pub, target.pkg))

\* tasks.sync
Sync(target, version, fetch) ==
    /\ ops < MaxOps
    /\ rev > 0
    /\ \E out \in {DownloadAll(SyncCalls(rev, target, version), downloads, disk, EmptyMap,
                              fetch, now, rev)} :
           /\ downloads' = out.dl
           /\ disk' = out.dk
           /\ last' = Ran("sync", version, NoThresholds, out.res, {})
    /\ last_sync' = DateOf(now)
    /\ ops' = ops + 1
    /\ UNCHANGED <<rev, now, patched, faults, config_file, state_file, running>>

\* tasks.refresh_synced
RefreshSynced(fetch) ==
    /\ ops < MaxOps
    /\ rev > 0
    /\ \E out \in {DownloadAll(RefreshCalls(downloads, rev), downloads, disk, EmptyMap,
                              fetch, now, rev)} :
           /\ downloads' = out.dl
           /\ disk' = out.dk
           /\ last' = Ran("refresh_synced", None, NoThresholds, out.res, {})
    /\ last_sync' = DateOf(now)
    /\ ops' = ops + 1
    /\ UNCHANGED <<rev, now, patched, faults, config_file, state_file, running>>

\* tasks.purge_package 245-256: the packages the target selects
PurgeMatches(dl, target) ==
    IF target.pkg # None
    THEN {p \in DOMAIN dl : SplitId[p] = [pub |-> target.pub, pkg |-> target.pkg]}
    ELSE {p \in DOMAIN dl : StartsWithLower(SplitId[p].pub, target.pub)}

RECURSIVE PurgePackageLoop(_, _, _, _, _)
\* tasks.purge_package 274-295: the patched manifests are left alone here
PurgePackageLoop(pkgs, dl, dk, version, removed) ==
    IF pkgs = <<>> THEN [dl |-> dl, dk |-> dk, removed |-> removed]
    ELSE LET Rest(p, gone) ==
                 PurgePackageLoop(Tail(pkgs), RemoveVersions(dl, p, gone), RemoveDirs(dk, p, gone),
                                  version, removed \cup {<<p, v>> : v \in gone})
         IN  Rest(Head(pkgs), PurgeSelection(dl[Head(pkgs)].versions, version))

\* tasks.purge_package, confirmed with "yes"
PurgePackage(target, version) ==
    /\ ops < MaxOps
    /\ downloads # EmptyMap
    /\ PurgeMatches(downloads, target) # {}
    /\ \E out \in {PurgePackageLoop(SetToSeq(PurgeMatches(downloads, target)),
                                   downloads, disk, version, {})} :
           /\ downloads' = out.dl
           /\ disk' = out.dk
           /\ last' = Ran("purge_package", version, NoThresholds, EmptyMap, out.removed)
    /\ ops' = ops + 1
    /\ UNCHANGED <<rev, now, last_sync, patched, faults, config_file, state_file, running>>

\* tasks.purge_all_packages, confirmed with "yes"
PurgeAllPackages ==
    /\ ops < MaxOps
    /\ downloads # EmptyMap
    /\ \E out \in {PurgeAll([i \in 1..Cardinality(DOMAIN downloads) |->
                               <<SetToSeq(DOMAIN downloads)[i], None>>],
                           downloads, disk, patched, {})} :
           /\ downloads' = out.dl
           /\ disk' = out.dk
           /\ patched' = out.pt
           /\ last' = Ran("purge_all_packages", None, NoThresholds, EmptyMap, out.removed)
    /\ ops' = ops + 1
    /\ UNCHANGED <<rev, now, last_sync, faults, config_file, state_file, running>>

\* tasks.cleanup (not a dry run) with the thresholds of config.json
Cleanup(max_versions, max_age_months) ==
    /\ ops < MaxOps
    /\ {p \in DOMAIN downloads : Unpinned(downloads, p) # {}} # {}
    /\ \E out \in {PurgeAll(CleanupCalls(SeqFilter(PackageOrder, DOMAIN downloads),
                                        downloads, now, max_versions, max_age_months),
                           downloads, disk, patched, {})} :
           /\ downloads' = out.dl
           /\ disk' = out.dk
           /\ patched' = out.pt
           /\ last' = Ran("cleanup", None,
                          [max_versions |-> max_versions, max_age_months |-> max_age_months],
                          EmptyMap, out.removed)
    /\ ops' = ops + 1
    /\ UNCHANGED <<rev, now, last_sync, faults, config_file, state_file, running>>

Next ==
    \/ SyncRepo
    \/ \E p \in Packages, v \in VersionLabels, f \in {PathName(u) : u \in DOMAIN UrlParts} :
           Corrupt(p, v, f)
    \/ \E target \in SyncTargets, version \in SyncVersions :
           \E fetch \in [Range(MatchingPackages(rev, target.pub, target.pkg)) -> FetchOutcomes] :
               Sync(target, version, fetch)
    \/ \E fetch \in [{c[1] : c \in Range(RefreshCalls(downloads, rev))} -> FetchOutcomes] :
           RefreshSynced(fetch)
    \/ \E target \in PurgeTargets, version \in PurgeVersions : PurgePackage(target, version)
    \/ PurgeAllPackages
    \/ \E max_versions \in 0..MaxCount, max_age_months \in 0..MaxAge :
           Cleanup(max_versions, max_age_months)

Spec == Init /\ [][Next]_vars

(***************************************************************************)
(* The retention engine on its own: cleanup is run once on each state the  *)
(* earlier syncs of a project can have left behind.  Foo.Bar has any       *)
(* non-empty set of the versions below, each pinned or not and downloaded  *)
(* in any month up to now, listed in state.json in ascending or in         *)
(* descending order; Foo.Baz has one unpinned version.                     *)
(***************************************************************************)
RetentionLabels == <<"1.0", "1.1", "1.1.x", "1.2", "1.3">>

RetentionFiles == [f \in {"Bar-1.0.exe"} |-> Sha256["c10"]]

RetentionEntry(v, pinned, t) ==
    [version |-> v, git_rev |-> 1, files |-> RetentionFiles, timestamp |-> DateOf(t),
     pinned |-> pinned]

RECURSIVE Reverse(_)
Reverse(s) == IF s = <<>> THEN <<>> ELSE Append(Reverse(Tail(s)), Head(s))

RetentionState(S, pin, age, desc, t) ==
    LET Listed(vs) ==
            [i \in DOMAIN vs |-> RetentionEntry(vs[i], pin[vs[i]], t - age[vs[i]])]
        Ordered(vs) == IF desc THEN Listed(Reverse(vs)) ELSE Listed(vs)
    IN  [p \in Packages |->
            IF p = "Foo.Bar"
            THEN [versions |-> Ordered(SeqFilter(RetentionLabels, S)), timestamp |-> DateOf(t)]
            ELSE [versions |-> <<RetentionEntry("2.0", FALSE, 0)>>, timestamp |-> DateOf(0)]]

InitRetention ==
    /\ rev = 1
    /\ now \in 0..MaxNow
    /\ \E S \in (SUBSET Range(RetentionLabels)) \ {{}} :
          \E pin \in [S -> BOOLEAN], age \in [S -> 0..now], desc \in BOOLEAN :
              downloads = RetentionState(S, pin, age, desc, now)
    /\ disk = [k \in {pv \in Packages \X VersionLabels : HasVersion(downloads, pv[1], pv[2])} |->
                  [f \in {"Bar-1.0.exe"} |-> "c10"]]
    /\ patched = {<<DefaultPatchDir, pv[1], pv[2]>> : pv \in DOMAIN disk}
    /\ last_sync = DateOf(now)
    /\ last = Ran("init", None, NoThresholds, EmptyMap, {})
    /\ ops = MaxOps - 1
    /\ faults = 0
    /\ config_file = DEFAULT_CONFIG
    /\ state_file = "written"
    /\ running = <<>>

NextRetention ==
    \E max_versions \in 0..MaxCount, max_age_months \in 0..MaxAge :
        Cleanup(max_versions, max_age_months)

SpecRetention == InitRetention /\ [][NextRetention]_vars

(***************************************************************************)
(* Properties.  A step of a command is recognised by the command counter;  *)
(* `last` then tells which command ran and what download returned.         *)
(***************************************************************************)
DownloadCommands == {"sync", "refresh_synced"}

RemovalCommands == {"purge_package", "purge_all_packages", "cleanup"}

\* this step is download(p, ...) inside a sync or a refresh
DownloadStep(p) ==
    /\ ops' = ops + 1
    /\ last'.op \in DownloadCommands
    /\ p \in DOMAIN last'.res

\* C1: a second download of the same package with the same explicit version,
\* with the manifest repository and the files untouched after a first one
\* that succeeded, returns not-updated and leaves the recorded checksums of
\* that version as they were.
DownloadIdempotent ==
    [][\A p \in Packages :
          ( /\ DownloadStep(p)
            /\ last.op = "sync" /\ last'.op = "sync"
            /\ last.version # None /\ last'.version = last.version
            /\ last.rev = rev /\ faults = 0
            /\ p \in DOMAIN last.res /\ last.res[p].ret )
          => /\ ~last'.res[p].ret
             /\ EntryOf(downloads', p, last.version).files
                    = EntryOf(downloads, p, last.version).files]_vars

\* C2 as claimed: when the digest of a fetched file differs from the digest
\* its manifest declares, the file is recorded all the same, and a verify run
\* right after reports the file as MISMATCH and the package as not valid.
MismatchReportedByVerify ==
    [][\A p \in Packages :
          (DownloadStep(p) /\ last'.res[p].warned)
          => LET v   == last'.res[p].target
                 e   == EntryOf(downloads', p, v)
                 rep == validate_hashes(downloads', disk', p)
             IN  /\ DOMAIN e.files # {}
                 /\ \A f \in DOMAIN e.files :
                       /\ f \in DOMAIN rep.versions[v].files
                       /\ rep.versions[v].files[f].status = "MISMATCH"
                 /\ ~rep.valid]_vars

\* C2 as amended: when the digest of a fetched file differs from the digest
\* its manifest declares, the file is recorded all the same, with the digest
\* computed from its content, and a verify run right after reports the file
\* as MATCH and that version as valid.
MismatchRecordedAsFetched ==
    [][\A p \in Packages :
          (DownloadStep(p) /\ last'.res[p].warned)
          => LET v   == last'.res[p].target
                 e   == EntryOf(downloads', p, v)
                 rep == validate_hashes(downloads', disk', p)
             IN  /\ DOMAIN e.files # {}
                 /\ \A f \in DOMAIN e.files :
                       /\ f \in DOMAIN disk'[<<p, v>>]
                       /\ e.files[f] = Sha256[disk'[<<p, v>>][f]]
                       /\ f \in DOMAIN rep.versions[v].files
                       /\ rep.versions[v].files[f].status = "MATCH"
                 /\ rep.versions[v].valid]_vars

\* C2 witness: a download fetched a file whose digest is not the declared one
MismatchFetched ==
    \E p \in Packages :
        /\ last.op \in DownloadCommands
        /\ p \in DOMAIN last.res
        /\ last.res[p].warned
        /\ last.res[p].outcome = "fetched"

\* C3: verify right after a download that succeeded reports MATCH for every
\* file recorded for the downloaded version, and that version as valid.
VerifyAfterDownload ==
    [][\A p \in Packages :
          (DownloadStep(p) /\ last'.res[p].ret)
          => LET v   == last'.res[p].target
                 e   == EntryOf(downloads', p, v)
                 rep == validate_hashes(downloads', disk', p)
             IN  /\ rep.versions[v].valid
                 /\ \A f \in DOMAIN e.files :
                       /\ f \in DOMAIN rep.versions[v].files
                       /\ rep.versions[v].files[f].status = "MATCH"]_vars

\* C3 witness: a download succeeded on a file that was already on disk and
\* had been damaged since it was first recorded
DownloadedOverDamagedFile ==
    \E p \in Packages :
        /\ last.op \in DownloadCommands
        /\ p \in DOMAIN last.res
        /\ last.res[p].ret
        /\ last.res[p].outcome = "existing"
        /\ \E f \in DOMAIN disk[<<p, last.res[p].target>>] :
               /\ disk[<<p, last.res[p].target>>][f] = "junk"
               /\ f \in DOMAIN EntryOf(downloads, p, last.res[p].target).files

\* C4: a download without an explicit version that resolves to a version
\* whose entry is pinned leaves that entry pinned.
PinPreserved ==
    [][\A p \in Packages :
          ( /\ DownloadStep(p)
            /\ last'.op = "sync" /\ last'.version = None
            /\ last'.res[p].target # None
            /\ HasVersion(downloads, p, last'.res[p].target)
            /\ EntryOf(downloads, p, last'.res[p].target).pinned )
          => EntryOf(downloads', p, last'.res[p].target).pinned]_vars

\* C5: pinned is true only of versions the caller asked for by version; a
\* version that refresh_synced fetched because it resolved as the latest
\* upstream version is recorded with pinned = false.
RefreshRecordsUnpinned ==
    [][\A p \in Packages :
          ( /\ DownloadStep(p)
            /\ last'.op = "refresh_synced"
            /\ last'.res[p].target # None )
          => ~EntryOf(downloads', p, last'.res[p].target).pinned]_vars

\* C6: whatever the thresholds, the date and the number of versions, cleanup
\* removes no pinned version: its entry and its download directory stay as
\* they were.
PinnedSurvivesCleanup ==
    [][(ops' = ops + 1 /\ last'.op = "cleanup")
       => \A p \in DOMAIN downloads : \A e \in Range(downloads[p].versions) :
              e.pinned
              => /\ HasVersion(downloads', p, e.version)
                 /\ EntryOf(downloads', p, e.version) = e
                 /\ <<p, e.version>> \in DOMAIN disk'
                 /\ disk'[<<p, e.version>>] = disk[<<p, e.version>>]]_vars

\* C6 witness: cleanup removed a version of Foo.Bar and kept a pinned one
\* that is lower and older than the age threshold
PinnedKeptWhileOthersGo ==
    /\ last.op = "cleanup"
    /\ "Foo.Bar" \in DOMAIN downloads
    /\ \E e \in Range(downloads["Foo.Bar"].versions) :
           /\ e.pinned
           /\ AgeMonths(now, e.timestamp) > last.thresholds.max_age_months
           /\ \E pv \in last.removed : pv[1] = "Foo.Bar" /\ VersionLess(e.version, pv[2])

\* C7: for every max_count >= 0, a package with more than max_count unpinned
\* versions loses every unpinned version that has at least max_count unpinned
\* versions above it; with at most max_count unpinned versions the count rule
\* selects none, so a version not older than the age threshold stays.
CountRuleRemovesExcess ==
    [][(ops' = ops + 1 /\ last'.op = "cleanup")
       => \A p \in DOMAIN downloads :
              LET unpinned  == Unpinned(downloads, p)
                  max_count == last'.thresholds.max_versions
                  max_age   == last'.thresholds.max_age_months
              IN  \A v \in unpinned :
                      /\ ( /\ Cardinality(unpinned) > max_count
                           /\ Cardinality({w \in unpinned : VersionLess(v, w)}) >= max_count )
                         => ~HasVersion(downloads', p, v)
                      /\ ( /\ Cardinality(unpinned) <= max_count
                           /\ AgeMonths(now, EntryOf(downloads, p, v).timestamp) <= max_age )
                         => HasVersion(downloads', p, v)]_vars

\* C8: cleanup removes from a package exactly the union of the count-rule set
\* and the unpinned versions older than max_age_months: an unpinned version
\* that either rule selects is removed, one that neither selects is kept, and
\* so is every pinned version.
RemovedIsUnionOfRules ==
    [][(ops' = ops + 1 /\ last'.op = "cleanup")
       => \A p \in DOMAIN downloads :
              LET unpinned  == Unpinned(downloads, p)
                  max_count == last'.thresholds.max_versions
                  max_age   == last'.thresholds.max_age_months
                  old(v)    == AgeMonths(now, EntryOf(downloads, p, v).timestamp) > max_age
                  \* v is outside the max_count highest however ties are broken
                  excess(v) == /\ Cardinality(unpinned) > max_count
                               /\ Cardinality({w \in unpinned : VersionLess(v, w)}) >= max_count
                  \* v is among the max_count highest however ties are broken
                  top(v)    == \/ Cardinality(unpinned) <= max_count
                               \/ Cardinality({w \in unpinned \ {v} : ~VersionLess(w, v)})
                                      < max_count
              IN  /\ \A v \in unpinned :
                         /\ (excess(v) \/ old(v)) => ~HasVersion(downloads', p, v)
                         /\ (top(v) /\ ~old(v)) => HasVersion(downloads', p, v)
                  /\ \A e \in Range(downloads[p].versions) :
                         e.pinned => HasVersion(downloads', p, e.version)]_vars

\* C9: a version that leaves the state leaves the disk too, the versions a
\* purge, purge-package or cleanup reports as removed are gone from the state,
\* and no command leaves a package entry with an empty version map.
RemovalEffect ==
    [][/\ \A p \in DOMAIN downloads' : downloads'[p].versions # <<>>
       /\ \A p \in Packages, v \in VersionLabels :
              (HasVersion(downloads, p, v) /\ ~HasVersion(downloads', p, v))
              => <<p, v>> \notin DOMAIN disk'
       /\ (ops' = ops + 1 /\ last'.op \in RemovalCommands)
          => \A pv \in last'.removed :
                 /\ HasVersion(downloads, pv[1], pv[2])
                 /\ ~HasVersion(downloads', pv[1], pv[2])]_vars

\* C9 witness: a removal took the last version of a package, and the package
\* entry went with it
LastVersionRemoved ==
    /\ last.op \in RemovalCommands
    /\ \E pv \in last.removed :
           /\ pv[1] \notin DOMAIN downloads
           /\ <<pv[1], pv[2]>> \notin DOMAIN disk

\* C10: a download whose fetch fails returns not-updated after one attempt and
\* leaves the state of that package and version as it was: no entry is added,
\* and an existing entry keeps its files, timestamp and pinned flag.
FailedFetchLeavesState ==
    [][\A p \in Packages :
          (DownloadStep(p) /\ last'.res[p].outcome = "fetch_failed")
          => LET v == last'.res[p].target
             IN  /\ ~last'.res[p].ret
                 /\ last'.res[p].fetches = 1
                 /\ HasVersion(downloads', p, v) <=> HasVersion(downloads, p, v)
                 /\ HasVersion(downloads, p, v)
                    => EntryOf(downloads', p, v) = EntryOf(downloads, p, v)]_vars

\* C11: after any sequence of download calls, skipped ones included (no
\* eligible installer, failed fetch), every Version Entry in the state has a
\* non-empty files mapping.
EveryEntryHasFiles ==
    \A p \in DOMAIN downloads : \A e \in Range(downloads[p].versions) :
        e.files # EmptyMap

\* the download tree of package p is the same before and after the step
TreeUnchanged(p) ==
    \A w \in VersionLabels :
        /\ <<p, w>> \in DOMAIN disk' <=> <<p, w>> \in DOMAIN disk
        /\ <<p, w>> \in DOMAIN disk => disk'[<<p, w>>] = disk[<<p, w>>]

\* the state entries of package p are the same before and after the step
EntriesUnchanged(p) ==
    /\ p \in DOMAIN downloads' <=> p \in DOMAIN downloads
    /\ p \in DOMAIN downloads => downloads'[p] = downloads[p]

\* C13: a download with an explicit version that is among the package's
\* version directories targets exactly that version; with an explicit version
\* that is not among them it ends with 'version not found', returns
\* not-updated and leaves the package's entries and download tree alone;
\* without an explicit version it targets a maximum of the version
\* directories under the version order.
TargetVersion ==
    [][\A p \in Packages :
          (DownloadStep(p) /\ last'.op = "sync")
          => LET v         == last'.version
                 available == Range(VersionDirs(rev, p))
                 r         == last'.res[p]
             IN  /\ (v # None /\ v \in available)
                    => r.target = v /\ r.outcome # "version_not_found"
                 /\ (v # None /\ v \notin available)
                    => /\ r.outcome = "version_not_found"
                       /\ ~r.ret
                       /\ EntriesUnchanged(p)
                       /\ TreeUnchanged(p)
                 /\ v = None
                    => /\ r.target \in available
                       /\ \A w \in available : ~VersionLess(r.target, w)]_vars

(***************************************************************************)
(* The version resolver on its own: parse_version_safe is applied to one   *)
(* label, given by its dot-separated parts, and the latest version is      *)
(* taken of one directory listing.                                         *)
(***************************************************************************)
\* most dot-separated parts of a label
MaxParts == 3
\* most version directories in a listing
MaxCandidates == 3

\* the lists over S of length 0..n
SeqsUpTo(S, n) == UNION {[1..k -> S] : k \in 0..n}

PartValues == {Digits(0), Digits(1), Digits(2), Digits(10), Signed(-1), Signed(1), Text}

NoParse == [ok |-> FALSE, key |-> <<>>]

\* what the resolver is asked and what it answered
Asked(op, parts, candidates, parsed, latest) ==
    [op |-> op, parts |-> parts, candidates |-> candidates, parsed |-> parsed, latest |-> latest]

InitVersions ==
    /\ rev = 1
    /\ now = 0
    /\ downloads = EmptyMap
    /\ last_sync = NoDate
    /\ disk = EmptyMap
    /\ patched = {}
    /\ ops = 0
    /\ faults = 0
    /\ config_file = DEFAULT_CONFIG
    /\ state_file = "written"
    /\ running = <<>>
    /\ \/ \E parts \in SeqsUpTo(PartValues, MaxParts) \ {<<>>} :
              last = Asked("parse", parts, <<>>, NoParse, None)
       \/ \E candidates \in SeqsUpTo(VersionLabels, MaxCandidates) :
              last = Asked("latest", <<>>, candidates, NoParse, None)

\* parse_version_safe(v) for the label with these parts
ParseVersion ==
    /\ last.op = "parse"
    /\ last' = Asked("parse_version_safe", last.parts, <<>>, ParseParts(last.parts), None)
    /\ ops' = ops + 1
    /\ UNCHANGED <<rev, now, downloads, last_sync, disk, patched, faults,
                 config_file, state_file, running>>

\* get_latest_version() of a package with this directory listing
GetLatestVersion ==
    /\ last.op = "latest"
    /\ last' = Asked("get_latest_version", <<>>, last.candidates, NoParse,
                     LatestVersion(last.candidates))
    /\ ops' = ops + 1
    /\ UNCHANGED <<rev, now, downloads, last_sync, disk, patched, faults,
                 config_file, state_file, running>>

NextVersions == ParseVersion \/ GetLatestVersion

SpecVersions == InitVersions /\ [][NextVersions]_vars

\* C14: parse_version_safe is total: for every label, the empty string, labels
\* with non-numeric parts and labels with signed or negative parts included,
\* it returns an ordering key and never raises.
ParseIsTotal == last.op = "parse_version_safe" => last.parsed.ok

\* C15: the latest version of a non-empty listing is one of its labels, no
\* label of the listing has a greater key, and among the labels with the same
\* key it is the first in listing order (so the latest of 1.2.3, 1.10.0 and
\* 1.2.40.592 is 1.10.0); the latest of an empty listing is none.
LatestIsFirstMaximum ==
    last.op = "get_latest_version"
    => LET cs == last.candidates
           r  == last.latest
       IN  /\ cs = <<>> => r = None
           /\ cs # <<>>
              => /\ r # None
                 /\ \E i \in DOMAIN cs :
                       /\ cs[i] = r
                       /\ \A j \in DOMAIN cs : ~VersionLess(r, cs[j])
                       /\ \A j \in 1..(i - 1) : VKey(cs[j]) # VKey(r)
           /\ Range(cs) = {"1.2.3", "1.10.0", "1.2.40.592"} => r = "1.10.0"

(***************************************************************************)
(* Installer selection on its own: Foo.Bar 1.0 is downloaded into a fresh  *)
(* project from a manifest with any installer list.                        *)
(***************************************************************************)
\* most installer records in a manifest
MaxInstallers == 2

Architectures == {"x64", "x86", "arm64", "X64"}

\* InstallerUrl of a record: missing, empty, or one of two URLs
InstallerUrls ==
    {None, "", "https://example.com/foo/Bar-1.0.exe", "https://example.com/foo/Bar-1.0-x86.exe"}

InstallerRecords == {Inst(a, u, None) : a \in Architectures, u \in InstallerUrls}

NoResult ==
    [ret |-> FALSE, outcome |-> "none", target |-> None, fetches |-> 0, warned |-> FALSE]

\* the installer list of the manifest, the index selected and what download did
Selected(op, installers, chosen, res) ==
    [op |-> op, installers |-> installers, chosen |-> chosen, res |-> res]

InitInstallers ==
    /\ rev = 1
    /\ now = 0
    /\ downloads = EmptyMap
    /\ last_sync = NoDate
    /\ disk = EmptyMap
    /\ patched = {}
    /\ ops = 0
    /\ faults = 0
    /\ config_file = DEFAULT_CONFIG
    /\ state_file = "written"
    /\ running = <<>>
    /\ \E installers \in SeqsUpTo(InstallerRecords, MaxInstallers) :
           last = Selected("init", installers, 0, NoResult)

\* process_package for Foo.Bar 1.0 from the point where its manifest is read
DownloadFrom(fetch) ==
    /\ last.op = "init"
    /\ \E out \in {SelectAndDownload(last.installers,
                                    PrepareDir(disk, "Foo.Bar", "1.0"),
                                    PrepareEntry(downloads, "Foo.Bar", "1.0", rev, now, None),
                                    "Foo.Bar", "1.0", fetch, now)} :
           /\ downloads' = out.dl
           /\ disk' = out.dk
           /\ last' = Selected("download", last.installers, ChooseInstaller(last.installers),
                               Summary(out))
    /\ ops' = ops + 1
    /\ UNCHANGED <<rev, now, last_sync, patched, faults, config_file, state_file, running>>

NextInstallers == \E fetch \in FetchOutcomes : DownloadFrom(fetch)

SpecInstallers == InitInstallers /\ [][NextInstallers]_vars

\* the positions of the records with exactly this architecture and a URL
Eligible(installers, arch) ==
    {i \in DOMAIN installers :
        installers[i].Architecture = arch /\ installers[i].InstallerUrl \notin {None, ""}}

Least(S) == CHOOSE i \in S : \A j \in S : i <= j

\* C12: for every installer list the selected installer is the first x64
\* record with a URL, else the first x86 record with a URL; when there is
\* neither, none is selected and download returns not-updated without asking
\* the blob fetcher.  The file that download fetches is the selected one.
InstallerSelection ==
    last.op = "download"
    => LET x64      == Eligible(last.installers, "x64")
           x86      == Eligible(last.installers, "x86")
           expected == IF x64 # {} THEN Least(x64) ELSE IF x86 # {} THEN Least(x86) ELSE 0
       IN  /\ last.chosen = expected
           /\ expected = 0
              => /\ ~last.res.ret
                 /\ last.res.fetches = 0
                 /\ last.res.outcome = "no_installer"
                 /\ disk[<<"Foo.Bar", "1.0">>] = EmptyMap
           /\ expected # 0
              => /\ last.res.fetches = 1
                 /\ last.res.outcome = "fetched"
                    => disk[<<"Foo.Bar", "1.0">>]
                           = [f \in {PathName(last.installers[expected].InstallerUrl)} |->
                                 Blob[last.installers[expected].InstallerUrl]]

\* C12 witness: an x86 record was selected although an x64 record, one
\* without a usable URL, comes before it
FellBackToX86 ==
    /\ last.op = "download"
    /\ last.res.outcome = "fetched"
    /\ last.chosen = 2
    /\ last.installers[2].Architecture = "x86"
    /\ last.installers[1].Architecture = "x64"

(***************************************************************************)
(* validate-hash on its own: the command runs once on a project whose      *)
(* state and download tree are any combination of recorded and actual      *)
(* files.                                                                  *)
(***************************************************************************)
\* most file names recorded for Foo.Bar 1.0
MaxRecorded == 2
\* most file names in the download directory of Foo.Bar 1.0
MaxOnDisk == 3

VerifyNames == <<"Bar-1.0.exe", "Bar-1.0-x86.exe", "notes.txt", "extra.bin", "extra2.bin">>

FirstNames(n) == {VerifyNames[i] : i \in 1..(IF n < Len(VerifyNames) THEN n ELSE Len(VerifyNames))}

\* every map from a subset of the names to the values
MapsFrom(names, values) == UNION {[S -> values] : S \in SUBSET names}

OutputModes == {None, "json"}

\* state.json 'files' of Foo.Bar 1.0, and its download directory, which may not exist
RecordedFiles == MapsFrom(FirstNames(MaxRecorded), {"ab10", "ab11"})
ActualDirs ==
    {[exists |-> FALSE, files |-> EmptyMap]}
    \cup {[exists |-> TRUE, files |-> m] : m \in MapsFrom(FirstNames(MaxOnDisk), {"c10", "c11"})}

EntryWith(v, files) == [NewEntry(v, 1, 0, None) EXCEPT !.files = files]

\* a second version of Foo.Bar: absent, intact, or recorded without directory
OtherVersion ==
    {[entries |-> <<>>, dirs |-> EmptyMap],
     [entries |-> <<EntryWith("1.1", [f \in {"Bar-1.1.exe"} |-> "ab11"])>>,
      dirs |-> [k \in {<<"Foo.Bar", "1.1">>} |-> [f \in {"Bar-1.1.exe"} |-> "c11"]]],
     [entries |-> <<EntryWith("1.1", [f \in {"Bar-1.1.exe"} |-> "ab11"])>>,
      dirs |-> EmptyMap]}

\* a second package: absent, intact, damaged, or nothing recorded and a stray file
OtherPackage ==
    {[entries |-> <<>>, dirs |-> EmptyMap],
     [entries |-> <<EntryWith("2.0", [f \in {"Baz-2.0.exe"} |-> "ab20"])>>,
      dirs |-> [k \in {<<"Foo.Baz", "2.0">>} |-> [f \in {"Baz-2.0.exe"} |-> "c20"]]],
     [entries |-> <<EntryWith("2.0", [f \in {"Baz-2.0.exe"} |-> "ab20"])>>,
      dirs |-> [k \in {<<"Foo.Baz", "2.0">>} |-> [f \in {"Baz-2.0.exe"} |-> "junk"]]],
     [entries |-> <<EntryWith("2.0", EmptyMap)>>,
      dirs |-> [k \in {<<"Foo.Baz", "2.0">>} |-> [f \in {"notes.txt"} |-> "junk"]]]}

PackageInfo(entries) == [versions |-> entries, timestamp |-> DateOf(0)]

VerifyState(files, w, q) ==
    LET bar == [x \in {"Foo.Bar"} |-> PackageInfo(<<EntryWith("1.0", files)>> \o w.entries)]
    IN  IF q.entries = <<>> THEN bar ELSE Put(bar, "Foo.Baz", PackageInfo(q.entries))

VerifyDisk(dir, w, q) ==
    LET both == [k \in (DOMAIN w.dirs) \cup (DOMAIN q.dirs) |->
                    IF k \in DOMAIN w.dirs THEN w.dirs[k] ELSE q.dirs[k]]
    IN  IF dir.exists THEN Put(both, <<"Foo.Bar", "1.0">>, dir.files) ELSE both

Line(text, p, v, f, status) == [text |-> text, p |-> p, v |-> v, f |-> f, status |-> status]

\* what validate-hash printed and how it ended
Validated(op, output, results, lines, exit) ==
    [op |-> op, output |-> output, results |-> results, lines |-> lines, exit |-> exit]

NoResults == [all_valid |-> TRUE, packages |-> EmptyMap]

InitVerify ==
    /\ rev = 1
    /\ now = 0
    /\ last_sync = NoDate
    /\ patched = {}
    /\ ops = 0
    /\ faults = 0
    /\ config_file = DEFAULT_CONFIG
    /\ state_file = "written"
    /\ running = <<>>
    /\ last = Validated("init", None, NoResults, {}, 0)
    /\ \/ downloads = EmptyMap /\ disk = EmptyMap
       \/ \E files \in RecordedFiles, dir \in ActualDirs, w \in OtherVersion, q \in OtherPackage :
              /\ downloads = VerifyState(files, w, q)
              /\ disk = VerifyDisk(dir, w, q)

\* validate_hash 194-216: the text printed for one version report
VersionLines(p, v, vdata) ==
    IF vdata.files = EmptyMap /\ vdata.missing_files = {}
    THEN {Line("Warning: No files recorded", p, v, None, None)}
    ELSE IF ~vdata.valid /\ vdata.files = EmptyMap /\ vdata.missing_files # {}
    THEN {Line("Error: Download directory missing", p, v, None, None)}
    ELSE {Line("Validating", p, v, f, vdata.files[f].status) : f \in DOMAIN vdata.files}
         \cup {Line("Error: Expected file missing", p, v, f, None) : f \in vdata.missing_files}
         \cup {Line("Warning: Unexpected files", p, v, f, None) : f \in vdata.unexpected_files}

\* validate_hash 192-222: human-readable output
TextLines(results) ==
    UNION {UNION {VersionLines(p, v, results.packages[p].versions[v]) :
                     v \in DOMAIN results.packages[p].versions} :
              p \in DOMAIN results.packages}
    \cup {IF results.all_valid
          THEN Line("All downloaded files validated successfully!", None, None, None, None)
          ELSE Line("Validation failed!", None, None, None, None)}

\* validate_hash 178-188: the aggregate report
AggregateReport(dl, dk) ==
    LET packages == [p \in DOMAIN dl |-> validate_hashes(dl, dk, p)]
    IN  [all_valid |-> \A p \in DOMAIN packages : packages[p].valid, packages |-> packages]

\* tasks.validate_hash
ValidateHash(output) ==
    /\ last.op = "init"
    /\ IF downloads = EmptyMap
       THEN last' = Validated("validate_hash", output, NoResults,
                              IF output = "json" THEN {Line("json", None, None, None, None)}
                              ELSE {Line("No downloaded packages found in state.json",
                                         None, None, None, None)},
                              0)
       ELSE \E results \in {AggregateReport(downloads, disk)} :
                last' = Validated("validate_hash", output, results,
                                  IF output = "json" THEN {Line("json", None, None, None, None)}
                                  ELSE TextLines(results),
                                  IF output # "json" /\ ~results.all_valid THEN 1 ELSE 0)
    /\ ops' = ops + 1
    /\ UNCHANGED <<rev, now, downloads, last_sync, disk, patched, faults,
                 config_file, state_file, running>>

NextVerify == \E output \in OutputModes : ValidateHash(output)

SpecVerify == InitVerify /\ [][NextVerify]_vars

\* the files actually in the download directory of a version
FilesOnDisk(p, v) == IF <<p, v>> \in DOMAIN disk THEN disk[<<p, v>>] ELSE EmptyMap

\* the Version Entries in state, as <<package, entry>>
StateEntries == UNION {{<<p, e>> : e \in Range(downloads[p].versions)} : p \in DOMAIN downloads}

ReportOf(p, v) == last.results.packages[p].versions[v]

\* a recorded file that is on disk with the recorded checksum
Intact(p, e, f) ==
    /\ f \in DOMAIN FilesOnDisk(p, e.version)
    /\ Sha256[FilesOnDisk(p, e.version)[f]] = e.files[f]

\* C16: after validate-hash, for every version with recorded files,
\* missing_files is exactly the recorded names absent on disk (all of them
\* when the download directory is absent), unexpected_files is exactly the
\* names on disk that are not recorded, and every recorded file on disk is
\* MATCH when its computed checksum equals the recorded one, else MISMATCH.
VerifyClassification ==
    last.op = "validate_hash"
    => \A pe \in StateEntries :
           LET p == pe[1]
               e == pe[2]
               actual == FilesOnDisk(p, e.version)
           IN  e.files # EmptyMap
               => /\ ReportOf(p, e.version).missing_files = (DOMAIN e.files) \ (DOMAIN actual)
                  /\ ReportOf(p, e.version).unexpected_files = (DOMAIN actual) \ (DOMAIN e.files)
                  /\ DOMAIN ReportOf(p, e.version).files = (DOMAIN e.files) \cap (DOMAIN actual)
                  /\ \A f \in DOMAIN ReportOf(p, e.version).files :
                         ReportOf(p, e.version).files[f].status
                             = IF Intact(p, e, f) THEN "MATCH" ELSE "MISMATCH"

\* C17: after validate-hash, a version with zero recorded files whose download
\* directory exists and is not empty has the directory's files in
\* unexpected_files; one without download directory is reported valid with
\* nothing listed.
VerifyNothingRecorded ==
    last.op = "validate_hash"
    => \A pe \in StateEntries :
           LET p == pe[1]
               e == pe[2]
           IN  e.files = EmptyMap
               => IF <<p, e.version>> \in DOMAIN disk
                  THEN disk[<<p, e.version>>] # EmptyMap
                       => ReportOf(p, e.version).unexpected_files = DOMAIN disk[<<p, e.version>>]
                  ELSE /\ ReportOf(p, e.version).valid
                       /\ ReportOf(p, e.version).missing_files = {}
                       /\ ReportOf(p, e.version).files = EmptyMap

\* C18: after validate-hash, a package's valid flag is true exactly when every
\* recorded file of every version of it is on disk with the recorded checksum,
\* and all_valid is true exactly when that holds for every package in state;
\* files on disk that are not recorded play no part.
AggregateValidity ==
    last.op = "validate_hash" /\ downloads # EmptyMap
    => /\ \A p \in DOMAIN downloads :
              last.results.packages[p].valid
                  <=> \A e \in Range(downloads[p].versions) :
                          \A f \in DOMAIN e.files : Intact(p, e, f)
       /\ last.results.all_valid
              <=> \A pe \in StateEntries : \A f \in DOMAIN pe[2].files : Intact(pe[1], pe[2], f)

\* C18 witness: one MISMATCH in Foo.Baz fails the whole report although
\* Foo.Bar is valid, with a file on disk that is not recorded
OneMismatchFailsReport ==
    /\ last.op = "validate_hash"
    /\ ~last.results.all_valid
    /\ "Foo.Baz" \in DOMAIN downloads
    /\ ~last.results.packages["Foo.Baz"].valid
    /\ last.results.packages["Foo.Bar"].valid
    /\ ReportOf("Foo.Bar", "1.0").unexpected_files # {}
    /\ ReportOf("Foo.Bar", "1.0").files # EmptyMap

\* C19: validate-hash ends with a non-zero exit status whenever the aggregate
\* report is not valid, in text mode and in JSON mode, and with zero when the
\* report is valid.
ExitStatus ==
    last.op = "validate_hash"
    => /\ last.lines # {}
       /\ (last.exit # 0) <=> ~last.results.all_valid

(***************************************************************************)
(* WingetMirrorManager.patch_repo on its own: the command runs once on a   *)
(* project whose state holds any set of versions, at a checked-out         *)
(* revision that has or does not have their manifest directories.          *)
(***************************************************************************)
\* most '/' characters at the end of the server URL passed to patch-repo
MaxSlashes == 1

\* a URL as str.split('/') sees it: "https://mirror.local" is
\* <<"https:", "", "mirror.local">>, a '/' at the end adds an empty segment
MirrorUrl == <<"https:", "", "mirror.local">>

\* load_config 222: "server_url": "https://localhost/winget"
ConfigServerUrl == <<"https:", "", "localhost", "winget">>

RECURSIVE WithSlashes(_, _)
WithSlashes(url, k) == IF k = 0 THEN url ELSE WithSlashes(Append(url, ""), k - 1)

\* --server-url; <<>> is "not given"
ServerUrls == {<<>>} \cup {WithSlashes(MirrorUrl, k) : k \in 0..MaxSlashes}

\* --patch-dir; None is "not given"
PatchDirs == {None, "./out"}

\* str.rstrip('/')
RECURSIVE RStripSlash(_)
RStripSlash(url) ==
    IF url # <<>> /\ url[Len(url)] = "" THEN RStripSlash(SubSeq(url, 1, Len(url) - 1)) ELSE url

\* the InstallerUrl of a manifest as segments; <<>> when the entry has none
SplitUrl(u) == IF u = None THEN <<>> ELSE <<UrlParts[u][1], "">> \o Tail(UrlParts[u])

\* a fault: the server URL is used as given
NewUrlNoStrip(server_url, pub, pkg, version, original_url) ==
    server_url \o <<"downloads", pub, pkg, version, PathName(original_url)>>

\* patch_repo 396-398: the URL written in place of original_url
NewUrl(server_url, pub, pkg, version, original_url) ==
    RStripSlash(server_url) \o <<"downloads", pub, pkg, version, PathName(original_url)>>

\* the manifest repository of this specification: ManifestTree and the version
\* directory manifests/f/Foo/Bar/1.2.3
PatchTree ==
    [p \in Packages |->
        IF p = "Foo.Bar"
        THEN Append(ManifestTree[p],
                    VersionDir("1.2.3", 1, TRUE, <<>>, TRUE,
                        <<Inst("arm64", None, None),
                          Inst("x64", "https://example.com/foo/Bar-1.2.3.exe", None)>>))
        ELSE Append(ManifestTree[p],
                    VersionDir("1.10", 1, TRUE,
                        <<Inst("x64", "https://example.com/baz/Baz-2.0.exe", None)>>,
                        FALSE, <<>>))]

ManifestFile(type, has_installers, installers) ==
    [ManifestType |-> type, has_installers |-> has_installers, Installers |-> installers]

\* how the manifests of the repository are written: with or without comment
\* lines, PackageVersion in quotes or plain
ManifestStyles == [comment : BOOLEAN, quoted : BOOLEAN]

\* a YAML scalar as written in a file
Scalar(text, quoted) == [text |-> text, quoted |-> quoted]

\* the plain scalars among the version labels that YAML resolves as float,
\* with repr() of the float
FloatRepr ==
    [t \in {"1.0", "1.1", "1.2", "2.0", "1.10"} |-> IF t = "1.10" THEN "1.1" ELSE t]

\* yaml.safe_load on a scalar: a plain scalar that matches the float pattern
\* is a float, anything else is a string
LoadScalar(sc) ==
    IF ~sc.quoted /\ sc.text \in DOMAIN FloatRepr
    THEN [type |-> "float", val |-> FloatRepr[sc.text]]
    ELSE [type |-> "str", val |-> sc.text]

\* yaml.dump on a scalar: a float as its repr, a string in quotes when it
\* would otherwise resolve as a float
DumpScalar(v) ==
    IF v.type = "float" THEN Scalar(v.val, FALSE)
    ELSE Scalar(v.val, v.val \in DOMAIN FloatRepr)

\* source_manifest_dir.glob("*.yaml"): the manifest files of a version
\* directory by file name, as they are on disk
SourceFiles(d, style) ==
    LET AsFile(manifest) ==
            [comment        |-> style.comment,
             PackageVersion |-> Scalar(d.version, style.quoted),
             ManifestType   |-> manifest.ManifestType,
             has_installers |-> manifest.has_installers,
             Installers     |-> manifest.Installers]
        main == [f \in {"<pub>.<pkg>.yaml"} |->
                    IF d.installer_yaml THEN AsFile(ManifestFile("version", FALSE, <<>>))
                    ELSE AsFile(ManifestFile("singleton", TRUE,
                                  [i \in DOMAIN d.installers |->
                                      [d.installers[i] EXCEPT
                                          !.InstallerUrl = SplitUrl(d.installers[i].InstallerUrl)]]))]
    IN  IF d.installer_yaml
        THEN Put(main, "<pub>.<pkg>.installer.yaml",
                 AsFile(ManifestFile("installer", TRUE,
                          [i \in DOMAIN d.installer_installers |->
                              [d.installer_installers[i] EXCEPT
                                  !.InstallerUrl = SplitUrl(d.installer_installers[i].InstallerUrl)]])))
        ELSE main

\* yaml.safe_load(f): the mapping of a manifest file; comments are not part of it
safe_load(text) ==
    [PackageVersion |-> LoadScalar(text.PackageVersion),
     ManifestType   |-> text.ManifestType,
     has_installers |-> text.has_installers,
     Installers     |-> text.Installers]

\* yaml.dump(manifest, f, default_flow_style=False, sort_keys=False)
yaml_dump(manifest) ==
    [comment        |-> FALSE,
     PackageVersion |-> DumpScalar(manifest.PackageVersion),
     ManifestType   |-> manifest.ManifestType,
     has_installers |-> manifest.has_installers,
     Installers     |-> manifest.Installers]

\* a fault: the manifest is copied with the URLs it has
PatchManifestKeepUrls(manifest, source, server_url, pub, pkg, version) == manifest

\* patch_repo 391-399: one manifest with its installer URLs rewritten
PatchManifest(manifest, source, server_url, pub, pkg, version) ==
    IF manifest.ManifestType = "installer" /\ manifest.has_installers
    THEN [manifest EXCEPT !.Installers =
             [i \in DOMAIN source |->
                 IF source[i].InstallerUrl # None
                 THEN [manifest.Installers[i] EXCEPT
                          !.InstallerUrl = NewUrl(server_url, pub, pkg, version,
                                                  source[i].InstallerUrl)]
                 ELSE manifest.Installers[i]]]
    ELSE manifest

\* patch_repo 376-404: the manifest files written for one version
PatchVersion(d, style, server_url, p) ==
    LET files == SourceFiles(d, style)
    IN  [f \in DOMAIN files |->
            yaml_dump(PatchManifest(safe_load(files[f]),
                                    IF f = "<pub>.<pkg>.installer.yaml" THEN d.installer_installers
                                    ELSE d.installers,
                                    server_url, SplitId[p].pub, SplitId[p].pkg, d.version))]

\* the version directories of tree that exist at revision r, by <<package, version>>
SourceDirs(tree, r) ==
    UNION {{<<p, d>> : d \in Range(DirsAt(tree[p], r))} : p \in DOMAIN tree}

\* WingetMirrorManager.patch_repo 350-410
patch_repo(dl, tree, style, r, server_url, patch_dir, config) ==
    LET url   == IF server_url # <<>> THEN server_url ELSE ConfigServerUrl
        dir   == IF patch_dir # None THEN patch_dir ELSE config.patch_dir
        found == {pd \in SourceDirs(tree, r) : HasVersion(dl, pd[1], pd[2].version)}
    IN  [written |-> [k \in {<<pd[1], pd[2].version>> : pd \in found} |->
                         PatchVersion(CHOOSE d \in Range(tree[k[1]]) : d.version = k[2],
                                      style, url, k[1])],
         dirs    |-> {<<dir, pd[1], pd[2].version>> : pd \in found},
         count   |-> Cardinality(found)]

\* how the source manifests are written, what patch-repo was given and what it wrote
Patched(op, style, server_url, written, count) ==
    [op |-> op, style |-> style, server_url |-> server_url, written |-> written, count |-> count]

\* the Version Entries a state may hold, by package
PatchCandidates ==
    {<<"Foo.Bar", "1.0">>, <<"Foo.Bar", "1.1">>, <<"Foo.Bar", "1.2">>, <<"Foo.Bar", "1.2.3">>,
     <<"Foo.Baz", "2.0">>, <<"Foo.Baz", "1.10">>}

PatchState(S) ==
    [p \in {pv[1] : pv \in S} |->
        PackageInfo(LET vs == SetToSeq({pv[2] : pv \in {x \in S : x[1] = p}})
                    IN  [i \in DOMAIN vs |-> EntryWith(vs[i], EmptyMap)])]

InitPatch ==
    /\ rev \in 1..MaxRev
    /\ now = 0
    /\ last_sync = NoDate
    /\ disk = EmptyMap
    /\ patched = {}
    /\ ops = 0
    /\ faults = 0
    /\ config_file = DEFAULT_CONFIG
    /\ state_file = "written"
    /\ running = <<>>
    /\ \E style \in ManifestStyles : last = Patched("init", style, <<>>, EmptyMap, 0)
    /\ \E S \in SUBSET PatchCandidates : downloads = PatchState(S)

\* tasks.patch_repo
PatchRepo(server_url, patch_dir) ==
    /\ last.op = "init"
    /\ IF downloads = EmptyMap
       THEN /\ last' = Patched("patch_repo", last.style, server_url, EmptyMap, 0)
            /\ patched' = patched
       ELSE \E out \in {patch_repo(downloads, PatchTree, last.style, rev, server_url, patch_dir,
                                      config_file)} :
                /\ last' = Patched("patch_repo", last.style, server_url, out.written, out.count)
                /\ patched' = patched \cup out.dirs
    /\ ops' = ops + 1
    /\ UNCHANGED <<rev, now, downloads, last_sync, disk, faults, config_file, state_file, running>>

NextPatch == \E server_url \in ServerUrls, patch_dir \in PatchDirs : PatchRepo(server_url, patch_dir)

SpecPatch == InitPatch /\ [][NextPatch]_vars

\* the server base URL patch-repo works with: the one given, else the configured one
ServerBaseUrl == IF last.server_url # <<>> THEN last.server_url ELSE ConfigServerUrl

\* the versions in state whose source manifest directory exists, with the directory
PatchedVersions ==
    {pd \in SourceDirs(PatchTree, rev) : HasVersion(downloads, pd[1], pd[2].version)}

\* in the manifests written for version directory d of package p, every
\* installer entry of the installer manifest that has a URL carries the URL
\* base/downloads/<publisher>/<package>/<version>/<file name of the original URL>
RewrittenWith(base, p, d) ==
    /\ <<p, d.version>> \in DOMAIN last.written
    /\ d.installer_yaml
       => LET out == last.written[<<p, d.version>>]["<pub>.<pkg>.installer.yaml"].Installers
          IN  /\ DOMAIN out = DOMAIN d.installer_installers
              /\ \A i \in DOMAIN out :
                     d.installer_installers[i].InstallerUrl # None
                     => out[i].InstallerUrl
                            = base \o <<"downloads", SplitId[p].pub, SplitId[p].pkg, d.version,
                                        PathName(d.installer_installers[i].InstallerUrl)>>

\* the example: Foo.Bar 1.2.3, https://example.com/foo/Bar-1.2.3.exe, base https://mirror.local
ExampleRewritten ==
    /\ last.server_url = MirrorUrl
    /\ <<"Foo.Bar", "1.2.3">> \in DOMAIN last.written
    => last.written[<<"Foo.Bar", "1.2.3">>]["<pub>.<pkg>.installer.yaml"].Installers[2].InstallerUrl
           = <<"https:", "", "mirror.local", "downloads", "Foo", "Bar", "1.2.3", "Bar-1.2.3.exe">>

\* C20 as stated: after patch-repo, for every version in state whose source
\* manifest directory exists, every installer entry with a URL in its
\* installer manifests has the URL
\* {server_base_url}/downloads/{publisher}/{package}/{version}/{file name}.
PatchUrlTemplate ==
    last.op = "patch_repo"
    => /\ \A pd \in PatchedVersions : RewrittenWith(ServerBaseUrl, pd[1], pd[2])
       /\ ExampleRewritten

\* C20 amended: the same, with the '/' characters at the end of
\* server_base_url removed before /downloads/... is appended.
PatchUrlRewrite ==
    last.op = "patch_repo"
    => /\ \A pd \in PatchedVersions : RewrittenWith(RStripSlash(ServerBaseUrl), pd[1], pd[2])
       /\ ExampleRewritten

\* C20 witness: patch-repo was given a server URL ending in '/', rewrote the
\* installer manifest of Foo.Bar 1.2.3 and skipped a version in state whose
\* source manifest directory does not exist
PatchedWithTrailingSlash ==
    /\ last.op = "patch_repo"
    /\ last.server_url = Append(MirrorUrl, "")
    /\ <<"Foo.Bar", "1.2.3">> \in DOMAIN last.written
    /\ HasVersion(downloads, "Foo.Bar", "1.2")
    /\ <<"Foo.Bar", "1.2">> \notin DOMAIN last.written

\* the manifest files written for a version equal the source files, except
\* for the URL of the installer entries of installer manifests
CopiedExceptUrls(p, d) ==
    LET src == SourceFiles(d, last.style)
        out == last.written[<<p, d.version>>]
    IN  /\ DOMAIN out = DOMAIN src
        /\ \A f \in DOMAIN src :
               /\ src[f].ManifestType # "installer" => out[f] = src[f]
               /\ out[f].comment = src[f].comment
               /\ out[f].PackageVersion = src[f].PackageVersion
               /\ out[f].ManifestType = src[f].ManifestType
               /\ out[f].has_installers = src[f].has_installers
               /\ DOMAIN out[f].Installers = DOMAIN src[f].Installers
               /\ \A i \in DOMAIN src[f].Installers :
                      /\ out[f].Installers[i].Architecture = src[f].Installers[i].Architecture
                      /\ out[f].Installers[i].InstallerSha256 = src[f].Installers[i].InstallerSha256
                      /\ src[f].Installers[i].InstallerUrl = <<>>
                         => out[f].Installers[i].InstallerUrl = <<>>

\* C21: a patch-repo step leaves the state, the download tree and the
\* checked-out manifest tree as they are, and every manifest file it writes
\* equals its source except for the URLs of the installer entries of
\* installer manifests; a manifest of another type is written identical to
\* its source.
PatchFrame ==
    [][last.op = "init" /\ last'.op = "patch_repo"
       => /\ UNCHANGED <<downloads, disk, rev, last_sync>>
          /\ \A pd \in PatchedVersions : CopiedExceptUrls(pd[1], pd[2])']_vars

(***************************************************************************)
(* The State Store under sync invocations that run step by step: an        *)
(* invocation loads state.json, downloads the packages of its batch one    *)
(* after the other into the state it holds in memory, and saves.  Several  *)
(* invocations may run against the same project, and an invocation may     *)
(* stop at any point.                                                      *)
(***************************************************************************)
\* number of invocations
MaxProcs == 2

Procs == 1..MaxProcs

\* an invocation: where it is, the state it holds, the download calls left
\* and what the calls made so far returned
Proc(pc, state, calls, res) == [pc |-> pc, state |-> state, calls |-> calls, res |-> res]

Idle == Proc("idle", EmptyMap, <<>>, EmptyMap)

\* the versions a sync of this specification is asked for
StoreVersions == {None, "1.0"}

\* the size of the document json.dump writes for a downloads mapping, counted
\* in Version Entries and recorded files
DocSize(dl) ==
    Cardinality(UNION {{<<p, e.version>> : e \in Range(dl[p].versions)} : p \in DOMAIN dl})
    + Cardinality(UNION {UNION {{<<p, e.version, f>> : f \in DOMAIN e.files} :
                                   e \in Range(dl[p].versions)} : p \in DOMAIN dl})

\* the last step taken, by which invocation
Stepped(op, proc) == [op |-> op, proc |-> proc]

InitStore ==
    /\ rev \in 1..MaxRev
    /\ now = 0
    /\ downloads = EmptyMap
    /\ last_sync = NoDate
    /\ disk = EmptyMap
    /\ patched = {}
    /\ ops = 0
    /\ faults = 0
    /\ config_file = DEFAULT_CONFIG
    /\ state_file = "written"
    /\ running = [i \in Procs |-> Idle]
    /\ last = Stepped("init", 0)

\* WingetMirrorManager.__init__ 241-242 and sync 52-68: state.json is read,
\* the packages of the filter are listed; json.load raises on a file that
\* is not a complete document
Load(i, target, version) ==
    /\ running[i].pc = "idle"
    /\ running' = [running EXCEPT ![i] =
                      IF state_file = "written"
                      THEN Proc("batch", downloads, SyncCalls(rev, target, version), EmptyMap)
                      ELSE Proc("crashed", EmptyMap, <<>>, EmptyMap)]
    /\ last' = Stepped("load", i)
    /\ ops' = ops + 1
    /\ UNCHANGED <<rev, now, downloads, last_sync, disk, patched, faults, config_file, state_file>>

\* sync 70-83: pkg.download for the next package of the batch; the fetch
\* succeeds or requests.get / raise_for_status raises
DownloadNext(i, fetch) ==
    /\ running[i].pc = "batch"
    /\ running[i].calls # <<>>
    /\ \E out \in {process_package(running[i].state, disk, Head(running[i].calls)[1],
                                  Head(running[i].calls)[2], fetch, now, rev)} :
           /\ running' = [running EXCEPT ![i] =
                             Proc("batch", out.dl, Tail(running[i].calls),
                                  Put(running[i].res, Head(running[i].calls)[1], Summary(out)))]
           /\ disk' = out.dk
    /\ last' = Stepped("download", i)
    /\ UNCHANGED <<rev, now, downloads, last_sync, patched, ops, faults, config_file, state_file>>

\* process_package 186-195: the download tree when the writing of the file
\* that would lead from dk to dk2 stops part way: the part written so far
\* stays under the destination name
PartlyWritten(dk, dk2) ==
    [k \in DOMAIN dk2 |->
        IF k \in DOMAIN dk
        THEN [f \in DOMAIN dk2[k] |-> IF f \in DOMAIN dk[k] THEN dk[k][f] ELSE "junk"]
        ELSE [f \in DOMAIN dk2[k] |-> "junk"]]

\* process_package 184-194: the connection breaks while the body is read;
\* iter_content raises outside the try of 173-182, the file written so far
\* stays and the exception ends the invocation
StreamBreaks(i) ==
    /\ running[i].pc = "batch"
    /\ running[i].calls # <<>>
    /\ \E out \in {process_package(running[i].state, disk, Head(running[i].calls)[1],
                                  Head(running[i].calls)[2], "ok", now, rev)} :
           /\ out.fetches = 1
           /\ disk' = PartlyWritten(disk, out.dk)
    /\ running' = [running EXCEPT ![i].pc = "crashed"]
    /\ last' = Stepped("stream_breaks", i)
    /\ UNCHANGED <<rev, now, downloads, last_sync, patched, ops, faults, config_file, state_file>>

\* process_package 186-195: the process is killed inside the loop that
\* writes the body to the destination file
KilledInFetch(i) ==
    /\ running[i].pc = "batch"
    /\ running[i].calls # <<>>
    /\ \E out \in {process_package(running[i].state, disk, Head(running[i].calls)[1],
                                  Head(running[i].calls)[2], "ok", now, rev)} :
           /\ out.fetches = 1
           /\ disk' = PartlyWritten(disk, out.dk)
    /\ running' = [running EXCEPT ![i].pc = "crashed"]
    /\ last' = Stepped("killed_in_fetch", i)
    /\ UNCHANGED <<rev, now, downloads, last_sync, patched, ops, faults, config_file, state_file>>

\* save_state 302: open(..., 'w') truncates state.json
OpenForWrite(i) ==
    /\ running[i].pc = "batch"
    /\ running[i].calls = <<>>
    /\ state_file' = "empty"
    /\ running' = [running EXCEPT ![i].pc = "dump"]
    /\ last' = Stepped("open", i)
    /\ UNCHANGED <<rev, now, downloads, last_sync, disk, patched, ops, faults, config_file>>

\* save_state 303: json.dump writes the document from the start of the
\* file; what another invocation wrote beyond its end in the meantime stays
Dump(i) ==
    /\ running[i].pc = "dump"
    /\ IF state_file = "empty" \/ DocSize(downloads) <= DocSize(running[i].state)
       THEN /\ state_file' = "written"
            /\ downloads' = running[i].state
            /\ last_sync' = DateOf(now)
       ELSE /\ state_file' = "garbled"
            /\ UNCHANGED <<downloads, last_sync>>
    /\ running' = [running EXCEPT ![i].pc = "done"]
    /\ last' = Stepped("dump", i)
    /\ UNCHANGED <<rev, now, disk, patched, ops, faults, config_file>>

\* the process is killed
Crash(i) ==
    /\ running[i].pc \in {"batch", "dump"}
    /\ running' = [running EXCEPT ![i].pc = "crashed"]
    /\ last' = Stepped("crash", i)
    /\ UNCHANGED <<rev, now, downloads, last_sync, disk, patched, ops, faults,
                   config_file, state_file>>

NextStore ==
    \E i \in Procs :
        \/ \E target \in SyncTargets, version \in StoreVersions : Load(i, target, version)
        \/ \E fetch \in FetchOutcomes : DownloadNext(i, fetch)
        \/ KilledInFetch(i)
        \/ StreamBreaks(i)
        \/ OpenForWrite(i)
        \/ Dump(i)
        \/ Crash(i)

SpecStore == InitStore /\ [][NextStore]_vars

\* invocation i attempts the download of the next package of its batch
Attempt(i) ==
    /\ running[i].pc = "batch"
    /\ running[i].calls # <<>>
    /\ last'.proc = i
    /\ last'.op \in {"download", "stream_breaks"}

\* invocation i, the only one that runs, writes its state
SavesAlone(i) ==
    /\ last'.op = "dump"
    /\ last'.proc = i
    /\ \A j \in Procs \ {i} : running[j].pc = "idle"

\* C22: in a sync batch, whatever happens to the download of one package
\* (version not found, no eligible installer, failed fetch), the invocation
\* goes on with the remaining packages of the batch, and at the end of the
\* batch the state it saves holds the entries of the packages whose download
\* succeeded.
BatchIsolation ==
    [][\A i \in Procs :
           /\ Attempt(i)
              => /\ running'[i].pc = "batch"
                 /\ running'[i].calls = Tail(running[i].calls)
           /\ SavesAlone(i)
              => /\ state_file' = "written"
                 /\ downloads' = running[i].state
                 /\ \A p \in DOMAIN running[i].res :
                        running[i].res[p].ret
                        => /\ HasVersion(downloads', p, running[i].res[p].target)
                           /\ EntryOf(downloads', p, running[i].res[p].target).files # EmptyMap]_vars

\* C23: when an invocation stops at any point, also between the two steps
\* of a save, state.json is a complete state document (the one last written
\* or the new one), never an empty or partial one, and the files of the
\* download tree are as they were.
CrashSafety ==
    [][last'.op = "crash"
       => /\ state_file' = "written"
          /\ disk' = disk
          /\ downloads' = downloads]_vars

\* every invocation has finished its save, and the one that wrote last
AllSaved == \A i \in Procs : running[i].pc = "done"

\* C24: when all invocations have run to the end with their load, download
\* and save steps interleaved in any way, state.json holds exactly the state
\* the invocation that saved last had in memory; what only another
\* invocation recorded is not in it, although its files are on disk.
LastWriterWins ==
    AllSaved
    => /\ state_file = "written"
       /\ downloads = running[last.proc].state
       /\ \A j \in Procs : \A p \in DOMAIN running[j].state :
              \A e \in Range(running[j].state[p].versions) :
                  /\ HasVersion(downloads, p, e.version)
                     <=> HasVersion(running[last.proc].state, p, e.version)
                  /\ e.files # EmptyMap => DOMAIN e.files \subseteq DOMAIN FilesOnDisk(p, e.version)

(***************************************************************************)
(* refresh_synced on its own: the command runs, up to MaxOps times in a    *)
(* row, on a project whose state holds any set of versions of Foo.Bar,     *)
(* each pinned or not, downloaded at any earlier date.                     *)
(***************************************************************************)
RefreshLabels == <<"1.0", "1.1", "1.2">>

\* the file process_package records for a version of Foo.Bar or Foo.Baz
InstallerOf(p, v) ==
    LET m == ManifestOf(p, v)
        installers == IF m.installer_yaml THEN m.installer_installers ELSE m.installers
    IN  installers[ChooseInstaller(installers)]

\* the Version Entry and the download directory of a version downloaded at date t
SyncedEntry(p, v, pinned, t) ==
    [version |-> v, git_rev |-> 1,
     files |-> [f \in {PathName(InstallerOf(p, v).InstallerUrl)} |->
                   Sha256[Blob[InstallerOf(p, v).InstallerUrl]]],
     timestamp |-> DateOf(t), pinned |-> pinned]

SyncedDir(p, v) ==
    [f \in {PathName(InstallerOf(p, v).InstallerUrl)} |-> Blob[InstallerOf(p, v).InstallerUrl]]

RefreshState(S, pin, age, baz, t) ==
    LET vs  == SeqFilter(RefreshLabels, S)
        bar == [p \in {"Foo.Bar"} |->
                   [versions  |-> [i \in DOMAIN vs |-> SyncedEntry("Foo.Bar", vs[i], pin[vs[i]],
                                                                 t - age[vs[i]])],
                    timestamp |-> DateOf(t)]]
    IN  IF baz
        THEN Put(bar, "Foo.Baz", [versions  |-> <<SyncedEntry("Foo.Baz", "2.0", FALSE, 0)>>,
                                  timestamp |-> DateOf(0)])
        ELSE bar

InitRefresh ==
    /\ rev \in 1..MaxRev
    /\ now \in 0..MaxNow
    /\ \E S \in (SUBSET Range(RefreshLabels)) \ {{}} :
          \E pin \in [S -> BOOLEAN], age \in [S -> 0..now], baz \in BOOLEAN :
              downloads = RefreshState(S, pin, age, baz, now)
    /\ disk = [k \in {pv \in Packages \X VersionLabels : HasVersion(downloads, pv[1], pv[2])} |->
                  SyncedDir(k[1], k[2])]
    /\ patched = {}
    /\ last_sync = DateOf(now)
    /\ last = Ran("init", None, NoThresholds, EmptyMap, {})
    /\ ops = 0
    /\ faults = 0
    /\ config_file = DEFAULT_CONFIG
    /\ state_file = "written"
    /\ running = <<>>

NextRefresh ==
    \E fetch \in [{c[1] : c \in Range(RefreshCalls(downloads, rev))} -> FetchOutcomes] :
        RefreshSynced(fetch)

SpecRefresh == InitRefresh /\ [][NextRefresh]_vars

\* C25: a refresh_synced step changes no Version Entry that is pinned when
\* the step starts: its files, timestamp, pinned flag and source revision
\* stay, also when the pinned version is the latest upstream version of a
\* package that has an older unpinned version.
RefreshKeepsPinned ==
    [][last'.op = "refresh_synced"
       => \A p \in DOMAIN downloads : \A e \in Range(downloads[p].versions) :
              e.pinned => /\ HasVersion(downloads', p, e.version)
                          /\ EntryOf(downloads', p, e.version) = e]_vars

\* C29: a refresh_synced run that directly follows a refresh_synced run in
\* which every download succeeded, with the manifest repository and the
\* download tree as that run left them, calls download for no package and
\* changes nothing in state.json but last_sync.
RefreshConverges ==
    [][( /\ last.op = "refresh_synced"
         /\ \A p \in DOMAIN last.res : last.res[p].ret
         /\ last'.op = "refresh_synced" )
       => /\ last'.res = EmptyMap
          /\ downloads' = downloads
          /\ disk' = disk]_vars

(***************************************************************************)
(* Purge after patch-repo: patch_repo writes the patched manifests of the  *)
(* recorded versions into the directory it is given or config.json names,  *)
(* and WingetPackage.purge is then called for a package, as                *)
(* purge_all_packages and cleanup call it.                                 *)
(***************************************************************************)
\* config.json as initialize wrote it, or with patch_dir edited
Configs == {DEFAULT_CONFIG, [exists |-> TRUE, patch_dir |-> "out"]}

InitPurge ==
    /\ rev \in 1..MaxRev
    /\ now = 0
    /\ last_sync = NoDate
    /\ disk = EmptyMap
    /\ patched = {}
    /\ ops = 0
    /\ faults = 0
    /\ config_file \in Configs
    /\ state_file = "written"
    /\ running = <<>>
    /\ last = Patched("init", [comment |-> FALSE, quoted |-> TRUE], <<>>, EmptyMap, 0)
    /\ \E S \in SUBSET PatchCandidates : downloads = PatchState(S)

\* WingetPackage.purge(version) and its save_state
Purge(p, version) ==
    /\ last.op = "patch_repo"
    /\ \E out \in {purge(downloads, disk, patched, p, version)} :
           /\ out.ret
           /\ downloads' = out.dl
           /\ disk' = out.dk
           /\ patched' = out.pt
    /\ last' = [last EXCEPT !.op = "purge"]
    /\ ops' = ops + 1
    /\ UNCHANGED <<rev, now, last_sync, faults, config_file, state_file, running>>

NextPurge ==
    \/ \E patch_dir \in PatchDirs : PatchRepo(<<>>, patch_dir)
    \/ \E p \in Packages, version \in PurgeVersions : Purge(p, version)

SpecPurge == InitPurge /\ [][NextPurge]_vars

\* C26: after WingetPackage.purge no patched-manifest directory remains, in
\* the directory patch_repo wrote into (given or configured), for a version
\* of the package that the purge removed.
PurgeRemovesPatched ==
    [][last'.op = "purge"
       => \A d \in patched' :
              ~(HasVersion(downloads, d[2], d[3]) /\ ~HasVersion(downloads', d[2], d[3]))]_vars

(***************************************************************************)
(* init on a directory in which config.json and state.json each exist or   *)
(* not; an existing state.json holds any document earlier commands saved.  *)
(***************************************************************************)
NoConfig == [exists |-> FALSE, patch_dir |-> None]

\* what is remembered of an init: whether it found config.json
Initialized(op, found) == [op |-> op, found |-> found]

InitInitialize ==
    /\ rev \in 0..MaxRev
    /\ now = 0
    /\ disk = EmptyMap
    /\ patched = {}
    /\ ops = 0
    /\ faults = 0
    /\ running = <<>>
    /\ last = Initialized("start", FALSE)
    /\ config_file \in Configs \cup {NoConfig}
    /\ state_file \in {"absent", "written"}
    /\ IF state_file = "absent"
       THEN downloads = EmptyMap /\ last_sync = NoDate
       ELSE /\ \E S \in SUBSET PatchCandidates : downloads = PatchState(S)
            /\ last_sync \in {NoDate, DateOf(0)}

\* WingetMirrorManager.initialize(path)
Initialize ==
    /\ ops < MaxOps
    /\ IF config_file.exists
       THEN UNCHANGED <<config_file, state_file, downloads, last_sync>>
       ELSE /\ config_file' = DEFAULT_CONFIG
            /\ state_file' = "written"
            /\ downloads' = EmptyMap
            /\ last_sync' = NoDate
    /\ last' = Initialized("initialize", config_file.exists)
    /\ ops' = ops + 1
    /\ UNCHANGED <<rev, now, disk, patched, faults, running>>

NextInitialize == Initialize

SpecInitialize == InitInitialize /\ [][NextInitialize]_vars

\* C27: initialize leaves an existing config.json and an existing state.json
\* (with the downloads it records) as they are, and when it has returned
\* both files exist.
InitializeCreatesMissing ==
    [][last'.op = "initialize"
       => /\ config_file.exists => config_file' = config_file
          /\ state_file = "written" => /\ state_file' = "written"
                                       /\ downloads' = downloads
                                       /\ last_sync' = last_sync
          /\ config_file'.exists
          /\ state_file' = "written"]_vars

\* C28: a download that finds the destination file on disk fetches nothing
\* and leaves the file as it is, and a checksum that state.json already
\* records for that file stays the recorded one, also when the content of
\* the file has changed since it was saved.
ExistingFileKeepsChecksum ==
    [][\A p \in Packages :
          ( /\ DownloadStep(p)
            /\ last'.res[p].outcome = "existing" )
          => /\ last'.res[p].fetches = 0
             /\ disk'[<<p, last'.res[p].target>>] = disk[<<p, last'.res[p].target>>]
             /\ HasVersion(downloads, p, last'.res[p].target)
                => \A f \in DOMAIN EntryOf(downloads, p, last'.res[p].target).files :
                       f \in DOMAIN disk[<<p, last'.res[p].target>>]
                       => EntryOf(downloads', p, last'.res[p].target).files[f]
                              = EntryOf(downloads, p, last'.res[p].target).files[f]]_vars

(***************************************************************************)
(* The mirror as a whole: syncs on a cloned repository, each fetch failing *)
(* or not, and then patch-repo on the manifests of that repository.        *)
(***************************************************************************)
InitMirror ==
    /\ rev \in 1..MaxRev
    /\ now = 0
    /\ downloads = EmptyMap
    /\ disk = EmptyMap
    /\ patched = {}
    /\ last_sync = NoDate
    /\ last = Ran("init", None, NoThresholds, EmptyMap, {})
    /\ ops = 0
    /\ faults = 0
    /\ config_file = DEFAULT_CONFIG
    /\ state_file = "written"
    /\ running = <<>>

\* tasks.patch_repo after a sync, the manifests written with PackageVersion in quotes
PatchMirror(server_url) ==
    /\ last.op = "sync"
    /\ IF downloads = EmptyMap
       THEN /\ last' = Patched("patch_repo", [comment |-> FALSE, quoted |-> TRUE], server_url,
                               EmptyMap, 0)
            /\ patched' = patched
       ELSE \E out \in {patch_repo(downloads, ManifestTree, [comment |-> FALSE, quoted |-> TRUE],
                                   rev, server_url, None, config_file)} :
                /\ last' = Patched("patch_repo", [comment |-> FALSE, quoted |-> TRUE], server_url,
                                   out.written, out.count)
                /\ patched' = patched \cup out.dirs
    /\ ops' = ops + 1
    /\ UNCHANGED <<rev, now, downloads, last_sync, disk, faults, config_file, state_file, running>>

NextMirror ==
    \/ \E target \in SyncTargets, version \in SyncVersions :
           \E fetch \in [Range(MatchingPackages(rev, target.pub, target.pkg)) -> FetchOutcomes] :
               Sync(target, version, fetch)
    \/ \E server_url \in {<<>>, MirrorUrl} : PatchMirror(server_url)

SpecMirror == InitMirror /\ [][NextMirror]_vars

\* the installer URLs in the manifests written for version k = <<package, version>>
WrittenUrls(k) ==
    UNION {{last.written[k][f].Installers[i].InstallerUrl :
               i \in DOMAIN last.written[k][f].Installers} : f \in DOMAIN last.written[k]}

\* the file names of the URLs among them that point into the download
\* directory of k on the mirror
RewrittenNames(k) ==
    LET dir == RStripSlash(ServerBaseUrl)
                   \o <<"downloads", SplitId[k[1]].pub, SplitId[k[1]].pkg, k[2]>>
    IN  {u[Len(u)] : u \in {w \in WrittenUrls(k) :
                               Len(w) = Len(dir) + 1 /\ SubSeq(w, 1, Len(dir)) = dir}}

\* the file names of the installer entries with a URL in the installer
\* manifest of a version directory
InstallerNames(d) ==
    IF d.installer_yaml
    THEN {PathName(i.InstallerUrl) :
             i \in {x \in Range(d.installer_installers) : x.InstallerUrl # None}}
    ELSE {}

\* C30 as stated: after downloads that all recorded a file and a patch-repo,
\* every URL rewritten for a version names a file that state.json records
\* for the version and that is in its download directory, and every file
\* recorded for the version is named by a rewritten URL.
MirrorClosed ==
    ( /\ last.op = "patch_repo"
      /\ \A p \in DOMAIN downloads : \A e \in Range(downloads[p].versions) : e.files # EmptyMap )
    => \A k \in DOMAIN last.written :
           /\ \A n \in RewrittenNames(k) :
                  /\ n \in DOMAIN EntryOf(downloads, k[1], k[2]).files
                  /\ k \in DOMAIN disk /\ n \in DOMAIN disk[k]
           /\ \A f \in DOMAIN EntryOf(downloads, k[1], k[2]).files : f \in RewrittenNames(k)

\* C30 amended: after downloads and a patch-repo, the URLs rewritten for a
\* version are those of all installer entries with a URL of its installer
\* manifest, downloaded or not, and none when it has no installer manifest;
\* every file recorded for a version that has an installer manifest is in
\* its download directory and is named by a rewritten URL.
MirrorReferences ==
    last.op = "patch_repo"
    => \A k \in DOMAIN last.written :
           /\ RewrittenNames(k) = InstallerNames(ManifestOf(k[1], k[2]))
           /\ ManifestOf(k[1], k[2]).installer_yaml
              => \A f \in DOMAIN EntryOf(downloads, k[1], k[2]).files :
                     /\ f \in RewrittenNames(k)
                     /\ k \in DOMAIN disk /\ f \in DOMAIN disk[k]

\* C30 witness: Foo.Bar 1.0 was downloaded and patched: its x64 installer is
\* recorded and referenced, and the URL of its x86 installer, which was not
\* downloaded, is rewritten as well
PatchedBeyondDownloads ==
    /\ last.op = "patch_repo"
    /\ <<"Foo.Bar", "1.0">> \in DOMAIN last.written
    /\ DOMAIN EntryOf(downloads, "Foo.Bar", "1.0").files = {"Bar-1.0.exe"}
    /\ RewrittenNames(<<"Foo.Bar", "1.0">>) = {"Bar-1.0.exe", "Bar-1.0-x86.exe"}
    /\ "Bar-1.0-x86.exe" \notin DOMAIN disk[<<"Foo.Bar", "1.0">>]

\* what the blob fetcher delivers, complete, for the file of a given name
Delivered(f) == Blob[CHOOSE u \in DOMAIN UrlParts : PathName(u) = f]

\* C31: whatever invocations were interrupted while a fetched file was only
\* partly written, every checksum that a saved state.json records for a
\* file is the checksum of the complete content the blob fetcher delivers
\* for it, never that of a partial file.
InterruptedFetchNotAccepted ==
    state_file = "written"
    => \A p \in DOMAIN downloads : \A e \in Range(downloads[p].versions) :
           \A f \in DOMAIN e.files : e.files[f] = Sha256[Delivered(f)]

====
